---------------------------- MODULE Spec2Model ----------------------------
(***************************************************************************)
(* Vayura: the oxygen demand calculator (services/oxygen-calculator).      *)
(*                                                                         *)
(* calculate(request) is a pure function of population, aqi, soil_quality  *)
(* and disaster_frequency.  Real-valued inputs are carried in tenths       *)
(* (aqi 156.5 is 1565), penalty factors in hundredths (1.3 is 130) and     *)
(* masses as exact naturals: base demand in milligrams, adjusted demand    *)
(* in nanograms (milligrams times three factors in hundredths), per-tree   *)
(* supply in grams.  Naturals that exceed the integer width of the model   *)
(* checker are sequences of base-10000 digits, least significant first.    *)
(***************************************************************************)
EXTENDS Integers, Sequences, FiniteSets, TLC

VARIABLES
    \* one call of calculate
    request, outcome, errors, result,
    \* concurrent calls of calculate: each caller's call in progress, and
    \* every answer given so far to each request
    calls, answered,
    \* one call of a data provider or of validateGeminiData
    prov,
    \* one stored dataSource string and what validateDataSource makes of it
    attribution,
    \* the district route: the time, the environmental_data records of the
    \* district, and the GET requests in flight
    clock, envRecords, gets,
    \* DistrictSearch: its state, its props, the closures of its search
    \* effect that still hold a timer or a request, the timer of onBlur,
    \* the number of edits and the time since the trimmed query changed
    query, results, loading, error, showDropdown, mounted,
    districtNotFound, loadingDistrict, closures, blurTimers, edits, quiet,
    \* the closure made by the latest run of the search effect (0: none)
    scheduled,
    \* the seed script: its position, its batches, the two collections
    seed,
    \* useNetworkStatus: its state, the browser's navigator, the listeners
    \* registered and the events queued
    network

calcVars == <<request, outcome, errors, result>>

concVars == <<calls, answered>>

provVars == <<prov>>

attrVars == <<attribution>>

routeVars == <<clock, envRecords, gets>>

searchVars ==
    <<query, results, loading, error, showDropdown, mounted,
      districtNotFound, loadingDistrict, closures, blurTimers, edits, quiet,
      scheduled>>

seedVars == <<seed>>

networkVars == <<network>>

vars ==
    <<calcVars, concVars, provVars, attrVars, routeVars, searchVars, seedVars,
      networkVars>>

---------------------------------------------------------------------------
(* Exact natural-number arithmetic on digit sequences *)

Limb == 10000

RECURSIVE BigOfNat(_)
BigOfNat(n) == IF n = 0 THEN << >> ELSE <<n % Limb>> \o BigOfNat(n \div Limb)

RECURSIVE BigNorm(_)
BigNorm(b) ==
    IF b = << >> THEN << >>
    ELSE IF b[Len(b)] = 0 THEN BigNorm(SubSeq(b, 1, Len(b) - 1))
    ELSE b

RECURSIVE BigMulCarry(_, _, _)
BigMulCarry(b, k, c) ==
    IF b = << >> THEN BigOfNat(c)
    ELSE LET t == Head(b) * k + c
         IN  <<t % Limb>> \o BigMulCarry(Tail(b), k, t \div Limb)

\* b * k for a natural k of at most 100000
BigMulSmall(b, k) == BigNorm(BigMulCarry(b, k, 0))

RECURSIVE BigAddCarry(_, _, _)
BigAddCarry(a, b, c) ==
    IF a = << >> /\ b = << >> THEN BigOfNat(c)
    ELSE LET x == IF a = << >> THEN 0 ELSE Head(a)
             y == IF b = << >> THEN 0 ELSE Head(b)
             t == x + y + c
         IN  <<t % Limb>>
             \o BigAddCarry(IF a = << >> THEN a ELSE Tail(a),
                            IF b = << >> THEN b ELSE Tail(b),
                            t \div Limb)

BigAdd(a, b) == BigNorm(BigAddCarry(a, b, 0))

RECURSIVE BigMul(_, _)
BigMul(a, b) ==
    IF b = << >> THEN << >>
    ELSE BigAdd(BigMulSmall(a, Head(b)),
                LET rest == BigMul(a, Tail(b))
                IN  IF rest = << >> THEN rest ELSE <<0>> \o rest)

RECURSIVE BigLessFrom(_, _, _)
BigLessFrom(a, b, i) ==
    IF i = 0 THEN FALSE
    ELSE IF a[i] # b[i] THEN a[i] < b[i]
    ELSE BigLessFrom(a, b, i - 1)

BigLess(a, b) ==
    IF Len(a) # Len(b) THEN Len(a) < Len(b) ELSE BigLessFrom(a, b, Len(a))

BigLeq(a, b) == a = b \/ BigLess(a, b)

\* long division of b by a natural k of at most 200000, from the most
\* significant digit down: [q |-> quotient, r |-> remainder]
RECURSIVE BigDivFrom(_, _, _, _)
BigDivFrom(b, k, i, r) ==
    IF i = 0 THEN [q |-> << >>, r |-> r]
    ELSE LET t    == r * Limb + b[i]
             rest == BigDivFrom(b, k, i - 1, t % k)
         IN  [q |-> rest.q \o <<t \div k>>, r |-> rest.r]

BigDivSmall(b, k) ==
    LET d == BigDivFrom(b, k, Len(b), 0) IN [q |-> BigNorm(d.q), r |-> d.r]

BigCeilDivSmall(b, k) ==
    LET d == BigDivSmall(b, k)
    IN  IF d.r = 0 THEN d.q ELSE BigAdd(d.q, <<1>>)

RECURSIVE BigToNat(_)
BigToNat(b) == IF b = << >> THEN 0 ELSE Head(b) + Limb * BigToNat(Tail(b))

---------------------------------------------------------------------------
(* Constants of the calculation *)

O2_CONSUMPTION_L_PER_DAY == 550

DAYS_PER_YEAR == 365

\* 1.429 g/L, in milligrams per litre
O2_DENSITY_MG_PER_L == 1429

BASE_TREE_O2_KG_PER_YEAR == 110

TREES_PER_HECTARE == 400

\* documented ranges of the penalty factors, in hundredths
AQI_FACTOR_MIN == 100

\* the cap taken for 2.0
AQI_FACTOR_MAX_Doubled == 2 * 100

AQI_FACTOR_MAX == 175

SOIL_FACTOR_MIN == 100

SOIL_FACTOR_MAX == 160

\* no floor penalty at frequency 0
DISASTER_FACTOR_MIN_NoFloor == 1 * 100

DISASTER_FACTOR_MIN == 105

DISASTER_FACTOR_MAX == 150

\* accepted input ranges, in tenths: 0 <= aqi <= 500, 0 <= soil_quality <= 100
MAX_AQI == 5000

MAX_SOIL_QUALITY == 1000

---------------------------------------------------------------------------
(* Inputs *)

MaxSmallPopulation == 3

PopulationInputs == (-1 .. MaxSmallPopulation) \cup {12765000}

AqiInputs == {-1, 0, 500, 505, 1000, 1500, 1565, 2000, 3000, 3005, 5000, 5001}

SoilInputs == {-1, 0, 5, 399, 400, 650, 800, 1000, 1001}

DisasterInputs == {-1, 0, 20, 32, 50, 100, 101, 200, 250}

Requests ==
    [population : PopulationInputs, aqi : AqiInputs,
     soil_quality : SoilInputs, disaster_frequency : DisasterInputs]

NoRequest == [population |-> 0, aqi |-> 0, soil_quality |-> 0,
              disaster_frequency |-> 0]

NoResult == [none |-> TRUE]

---------------------------------------------------------------------------
(* The pipeline of calculate *)

\* population = 0 let through (>= where > is meant)
InvalidFields_ZeroPopulationAccepted(req) ==
    {f \in {"population", "aqi", "soil_quality", "disaster_frequency"} :
        \/ f = "population" /\ ~(req.population >= 0)
        \/ f = "aqi" /\ ~(0 <= req.aqi /\ req.aqi <= MAX_AQI)
        \/ f = "soil_quality"
             /\ ~(0 <= req.soil_quality /\ req.soil_quality <= MAX_SOIL_QUALITY)
        \/ f = "disaster_frequency" /\ ~(req.disaster_frequency >= 0)}

\* the fields of the request that break a precondition
InvalidFields(req) ==
    {f \in {"population", "aqi", "soil_quality", "disaster_frequency"} :
        \/ f = "population" /\ ~(req.population > 0)
        \/ f = "aqi" /\ ~(0 <= req.aqi /\ req.aqi <= MAX_AQI)
        \/ f = "soil_quality"
             /\ ~(0 <= req.soil_quality /\ req.soil_quality <= MAX_SOIL_QUALITY)
        \/ f = "disaster_frequency" /\ ~(req.disaster_frequency >= 0)}

\* a year of 366 days
HumanO2Demand_LeapYear(population) ==
    BigMulSmall(
        BigMulSmall(
            BigMulSmall(BigOfNat(population), O2_CONSUMPTION_L_PER_DAY),
            DAYS_PER_YEAR + 1),
        O2_DENSITY_MG_PER_L)

\* litres never converted to mass: the density is left out
HumanO2Demand_NoDensity(population) ==
    BigMulSmall(BigMulSmall(BigOfNat(population), O2_CONSUMPTION_L_PER_DAY),
                DAYS_PER_YEAR)

\* step 1: population x 550 L/day x 365 days x 1.429 g/L, in milligrams
HumanO2Demand(population) ==
    BigMulSmall(
        BigMulSmall(
            BigMulSmall(BigOfNat(population), O2_CONSUMPTION_L_PER_DAY),
            DAYS_PER_YEAR),
        O2_DENSITY_MG_PER_L)

\* step 2: banded by air-quality category, 1.0 at clean air up to 1.75
AqiPenaltyFactor(aqi) ==
    IF aqi <= 500 THEN AQI_FACTOR_MIN
    ELSE IF aqi <= 1000 THEN 105
    ELSE IF aqi <= 1500 THEN 115
    ELSE IF aqi <= 2000 THEN 130
    ELSE IF aqi <= 3000 THEN 150
    ELSE AQI_FACTOR_MAX

\* step 3: decreasing in soil quality, 1.6 at the worst soil down to 1.0
SoilDegradationFactor(soil_quality) ==
    IF soil_quality >= 800 THEN SOIL_FACTOR_MIN
    ELSE IF soil_quality >= 600 THEN 120
    ELSE IF soil_quality >= 400 THEN 140
    ELSE SOIL_FACTOR_MAX

\* step 4: increasing in disaster frequency, floor 1.05 up to 1.5
DisasterLossFactor(disaster_frequency) ==
    IF disaster_frequency <= 20 THEN DISASTER_FACTOR_MIN
    ELSE IF disaster_frequency <= 50 THEN 110
    ELSE IF disaster_frequency <= 100 THEN 130
    ELSE DISASTER_FACTOR_MAX

\* step 5: base demand x AQI factor x soil factor x disaster factor,
\* milligrams times hundredths cubed, that is nanograms
AdjustedDemand(base, aqi_factor, soil_factor, disaster_factor) ==
    BigMulSmall(BigMulSmall(BigMulSmall(base, aqi_factor), soil_factor),
                disaster_factor)

\* the soil index used as a fraction without the division by 100
SoilAdjustedTreeSupply_NoPercent(soil_quality) ==
    (BASE_TREE_O2_KG_PER_YEAR * 1000 * soil_quality) \div 10

\* the degradation (100 - soil_quality) used where the quality is meant
SoilAdjustedTreeSupply_Inverted(soil_quality) ==
    (BASE_TREE_O2_KG_PER_YEAR * 1000 * (1000 - soil_quality)) \div (10 * 100)

\* step 6: 110 x (soil_quality / 100) kg, in grams (soil_quality in tenths)
SoilAdjustedTreeSupply(soil_quality) ==
    (BASE_TREE_O2_KG_PER_YEAR * 1000 * soil_quality) \div (10 * 100)

\* the quotient truncated where it is to be rounded up
TreesRequired_Floor(deficit, supply) ==
    BigDivSmall(BigDivSmall(BigDivSmall(deficit, 10000).q, 100000).q,
                supply).q

\* step 7: ceil(deficit / per-tree supply); deficit in nanograms, supply in
\* grams (10^9 nanograms)
TreesRequired(deficit, supply) ==
    BigCeilDivSmall(BigCeilDivSmall(BigCeilDivSmall(deficit, 10000), 100000),
                    supply)

\* the area cut off after 2 decimals where it is to be rounded
TreesRequiredHectares_Truncated(trees) ==
    BigDivSmall(BigMulSmall(trees, 100), TREES_PER_HECTARE).q

\* step 8: trees / TREES_PER_HECTARE rounded to 2 decimals, in hundredths
TreesRequiredHectares(trees) ==
    LET d == BigDivSmall(BigMulSmall(trees, 100), TREES_PER_HECTARE)
        odd == d.q # << >> /\ d.q[1] % 2 = 1
    IN  IF 2 * d.r > TREES_PER_HECTARE \/ (2 * d.r = TREES_PER_HECTARE /\ odd)
        THEN BigAdd(d.q, <<1>>)
        ELSE d.q

\* the breakdown's adjusted demand taken before the disaster factor is applied
CalculationResult_StaleBreakdown(req) ==
    LET base     == HumanO2Demand(req.population)
        aqi_f    == AqiPenaltyFactor(req.aqi)
        soil_f   == SoilDegradationFactor(req.soil_quality)
        dis_f    == DisasterLossFactor(req.disaster_frequency)
        adjusted == AdjustedDemand(base, aqi_f, soil_f, dis_f)
        supply   == SoilAdjustedTreeSupply(req.soil_quality)
        trees    == TreesRequired(adjusted, supply)
    IN  [population |-> req.population,
         human_o2_demand_kg_per_year |-> base,
         penalty_adjusted_demand_kg_per_year |-> adjusted,
         per_tree_o2_supply_kg_per_year |-> supply,
         oxygen_deficit_kg_per_year |-> adjusted,
         trees_required |-> trees,
         trees_required_hectares |-> TreesRequiredHectares(trees),
         formula_breakdown |->
            [human_o2_demand_kg |-> base,
             aqi_penalty_factor |-> aqi_f,
             soil_degradation_factor |-> soil_f,
             disaster_loss_factor |-> dis_f,
             adjusted_o2_demand_kg |-> AdjustedDemand(base, aqi_f, soil_f, 100),
             soil_adjusted_tree_supply_kg |-> supply]]

\* the deficit taken from the base demand, before the penalties
CalculationResult_DeficitFromBase(req) ==
    LET base     == HumanO2Demand(req.population)
        aqi_f    == AqiPenaltyFactor(req.aqi)
        soil_f   == SoilDegradationFactor(req.soil_quality)
        dis_f    == DisasterLossFactor(req.disaster_frequency)
        adjusted == AdjustedDemand(base, aqi_f, soil_f, dis_f)
        deficit  == AdjustedDemand(base, 100, 100, 100)
        supply   == SoilAdjustedTreeSupply(req.soil_quality)
        trees    == TreesRequired(deficit, supply)
    IN  [population |-> req.population,
         human_o2_demand_kg_per_year |-> base,
         penalty_adjusted_demand_kg_per_year |-> adjusted,
         per_tree_o2_supply_kg_per_year |-> supply,
         oxygen_deficit_kg_per_year |-> deficit,
         trees_required |-> trees,
         trees_required_hectares |-> TreesRequiredHectares(trees),
         formula_breakdown |->
            [human_o2_demand_kg |-> base,
             aqi_penalty_factor |-> aqi_f,
             soil_degradation_factor |-> soil_f,
             disaster_loss_factor |-> dis_f,
             adjusted_o2_demand_kg |-> adjusted,
             soil_adjusted_tree_supply_kg |-> supply]]

\* the per-tree supply reported as the shortfall 110 x (soil_quality - 100)
\* / 100 of the soil against perfect soil
CalculationResult_SupplyShortfall(req) ==
    LET base     == HumanO2Demand(req.population)
        aqi_f    == AqiPenaltyFactor(req.aqi)
        soil_f   == SoilDegradationFactor(req.soil_quality)
        dis_f    == DisasterLossFactor(req.disaster_frequency)
        adjusted == AdjustedDemand(base, aqi_f, soil_f, dis_f)
        supply   == SoilAdjustedTreeSupply(req.soil_quality)
        trees    == TreesRequired(adjusted, supply)
        reported == supply - SoilAdjustedTreeSupply(MAX_SOIL_QUALITY)
    IN  [population |-> req.population,
         human_o2_demand_kg_per_year |-> base,
         penalty_adjusted_demand_kg_per_year |-> adjusted,
         per_tree_o2_supply_kg_per_year |-> reported,
         oxygen_deficit_kg_per_year |-> adjusted,
         trees_required |-> trees,
         trees_required_hectares |-> TreesRequiredHectares(trees),
         formula_breakdown |->
            [human_o2_demand_kg |-> base,
             aqi_penalty_factor |-> aqi_f,
             soil_degradation_factor |-> soil_f,
             disaster_loss_factor |-> dis_f,
             adjusted_o2_demand_kg |-> adjusted,
             soil_adjusted_tree_supply_kg |-> reported]]

\* step 9: the assembled CalculationResult
CalculationResult(req) ==
    LET base     == HumanO2Demand(req.population)
        aqi_f    == AqiPenaltyFactor(req.aqi)
        soil_f   == SoilDegradationFactor(req.soil_quality)
        dis_f    == DisasterLossFactor(req.disaster_frequency)
        adjusted == AdjustedDemand(base, aqi_f, soil_f, dis_f)
        supply   == SoilAdjustedTreeSupply(req.soil_quality)
        trees    == TreesRequired(adjusted, supply)
    IN  [population |-> req.population,
         human_o2_demand_kg_per_year |-> base,
         penalty_adjusted_demand_kg_per_year |-> adjusted,
         per_tree_o2_supply_kg_per_year |-> supply,
         oxygen_deficit_kg_per_year |-> adjusted,
         trees_required |-> trees,
         trees_required_hectares |-> TreesRequiredHectares(trees),
         formula_breakdown |->
            [human_o2_demand_kg |-> base,
             aqi_penalty_factor |-> aqi_f,
             soil_degradation_factor |-> soil_f,
             disaster_loss_factor |-> dis_f,
             adjusted_o2_demand_kg |-> adjusted,
             soil_adjusted_tree_supply_kg |-> supply]]

---------------------------------------------------------------------------
(* The components at rest *)

NumCallers == 2

Callers == 1 .. NumCallers

NoCall == [pc |-> "idle", request |-> NoRequest, errors |-> {},
           outcome |-> "idle", result |-> NoResult]

ConcIdle ==
    /\ calls = [c \in Callers |-> NoCall]
    /\ answered = {}

NoProviderCall == [pc |-> "idle"]

ProvIdle == prov = NoProviderCall

NoAttribution == [pc |-> "idle"]

AttrIdle == attribution = NoAttribution

\* the requests of a run, each made once
NumGets == 2

Gets == 1 .. NumGets

NoRecord == [id |-> 0, timestamp |-> 0]

NoStats ==
    [totalTreesPlanted |-> 0, totalTreesDonated |-> 0, totalTrees |-> 0,
     oxygenOffset |-> 0]

NoGet ==
    [pc |-> "idle", slug |-> "", now |-> 0, snapshot |-> {},
     envData |-> NoRecord, called |-> FALSE, wrote |-> FALSE,
     posted |-> FALSE, contributions |-> {}, donations |-> {},
     stats |-> NoStats, status |-> 0, error |-> ""]

RouteIdle ==
    /\ clock = 0
    /\ envRecords = {}
    /\ gets = [g \in Gets |-> NoGet]

\* useState([]): no results, tagged with the query they answer
NoResults == [for |-> << >>, length |-> 0]

\* useState(null)
NoError == [for |-> << >>, message |-> "null"]

\* DistrictSearch after its first render and effects
SearchIdle ==
    /\ query = << >>
    /\ results = NoResults
    /\ loading = FALSE
    /\ error = NoError
    /\ showDropdown = FALSE
    /\ mounted = TRUE
    /\ districtNotFound = FALSE
    /\ loadingDistrict = FALSE
    /\ closures = {}
    /\ blurTimers = {}
    /\ edits = 0
    /\ quiet = 0
    /\ scheduled = 0

\* the seed script before it runs: empty collections, no batch
NoSeed ==
    [pc |-> "idle", n |-> 0, i |-> 0, batch |-> << >>, pending |-> << >>,
     districts |-> << >>, batches |-> << >>, leaderboardBatch |-> << >>,
     leaderboard |-> << >>, exit |-> -1]

SeedIdle == seed = NoSeed

\* navigator.connection when the browser has none: every field undefined
NoConnection ==
    [effectiveType |-> "undefined", downlink |-> -1, rtt |-> -1,
     saveData |-> "undefined"]

\* useNetworkStatus before its component mounts
NoNetwork ==
    [pc |-> "idle",
     status |-> [isOnline |-> TRUE] @@ NoConnection,
     navigator |-> [onLine |-> TRUE, connection |-> NoConnection,
                    mozConnection |-> NoConnection],
     listeners |-> {},
     events |-> << >>,
     last |-> "none"]

NetworkIdle == network = NoNetwork

\* what a single call of calculate leaves alone
notCalcVars ==
    <<concVars, provVars, attrVars, routeVars, searchVars, seedVars,
     networkVars>>

\* what the concurrent calls, the providers, the attribution, the route
\* and the search box leave alone
notConcVars ==
    <<calcVars, provVars, attrVars, routeVars, searchVars, seedVars,
     networkVars>>

notProvVars ==
    <<calcVars, concVars, attrVars, routeVars, searchVars, seedVars,
     networkVars>>

notAttrVars ==
    <<calcVars, concVars, provVars, routeVars, searchVars, seedVars,
     networkVars>>

notRouteVars ==
    <<calcVars, concVars, provVars, attrVars, searchVars, seedVars,
     networkVars>>

notSearchVars ==
    <<calcVars, concVars, provVars, attrVars, routeVars, seedVars,
     networkVars>>

notSeedVars ==
    <<calcVars, concVars, provVars, attrVars, routeVars, searchVars,
      networkVars>>

notNetworkVars ==
    <<calcVars, concVars, provVars, attrVars, routeVars, searchVars, seedVars>>

---------------------------------------------------------------------------
(* calculate(request): one call, start to finish *)

CalcIdle ==
    /\ request = NoRequest
    /\ outcome = "idle"
    /\ errors = {}
    /\ result = NoResult

Init ==
    /\ CalcIdle /\ ConcIdle /\ ProvIdle /\ AttrIdle /\ RouteIdle
    /\ SearchIdle
    /\ SeedIdle
    /\ NetworkIdle

\* a precondition fails: ValidationError naming the fields, nothing computed
CalculateInvalid(req) ==
    /\ outcome = "idle"
    /\ InvalidFields(req) # {}
    /\ request' = req
    /\ outcome' = "ValidationError"
    /\ errors' = InvalidFields(req)
    /\ result' = NoResult
    /\ UNCHANGED notCalcVars

\* the division by a zero supply answered with an infinite tree count
CalculateZeroSupply_Infinity(req) ==
    /\ outcome = "idle"
    /\ InvalidFields(req) = {}
    /\ SoilAdjustedTreeSupply(req.soil_quality) = 0
    /\ request' = req
    /\ outcome' = "ok"
    /\ errors' = {}
    /\ result' = [population |-> req.population,
                  per_tree_o2_supply_kg_per_year |-> 0,
                  trees_required |-> "Infinity",
                  trees_required_hectares |-> "Infinity"]
    /\ UNCHANGED notCalcVars

\* valid input with zero per-tree supply: the division of step 7 fails
CalculateZeroSupply(req) ==
    /\ outcome = "idle"
    /\ InvalidFields(req) = {}
    /\ SoilAdjustedTreeSupply(req.soil_quality) = 0
    /\ request' = req
    /\ outcome' = "DivisionByZeroError"
    /\ errors' = {}
    /\ result' = NoResult
    /\ UNCHANGED notCalcVars

CalculateOk(req) ==
    /\ outcome = "idle"
    /\ InvalidFields(req) = {}
    /\ SoilAdjustedTreeSupply(req.soil_quality) # 0
    /\ request' = req
    /\ outcome' = "ok"
    /\ errors' = {}
    /\ result' = CalculationResult(req)
    /\ UNCHANGED notCalcVars

\* the caller has taken the response or the failure; the next call starts
\* from nothing the previous one left behind
Return ==
    /\ outcome # "idle"
    /\ request' = NoRequest
    /\ outcome' = "idle"
    /\ errors' = {}
    /\ result' = NoResult
    /\ UNCHANGED notCalcVars

Next ==
    \/ \E req \in Requests :
        \/ CalculateInvalid(req)
        \/ CalculateZeroSupply(req)
        \/ CalculateOk(req)
    \/ Return

Spec == Init /\ [][Next]_vars

---------------------------------------------------------------------------
(* Properties of calculate *)

ValidRequests == {req \in Requests : InvalidFields(req) = {}}

\* per-tree supply in nanograms, the unit of the adjusted demand
SupplyInNanograms(supply) == BigMul(BigOfNat(supply), BigOfNat(1000000000))

\* n is the ceiling of num / den for naturals num, den > 0:
\* n * den >= num and (n - 1) * den < num
IsCeilingOf(n, num, den) ==
    /\ BigLeq(num, BigMul(den, n))
    /\ BigLess(BigMul(den, n), BigAdd(num, den))

C2_DeficitIsAdjustedDemand ==
    outcome = "ok" =>
        /\ result.oxygen_deficit_kg_per_year
            = result.penalty_adjusted_demand_kg_per_year
        /\ result.oxygen_deficit_kg_per_year
            = BigMul(HumanO2Demand(request.population),
                     BigOfNat(AqiPenaltyFactor(request.aqi)
                              * SoilDegradationFactor(request.soil_quality)
                              * DisasterLossFactor(request.disaster_frequency)))

C2_Witness ==
    /\ outcome = "ok"
    /\ request.population = 2
    /\ request.aqi = 3005
    /\ result.oxygen_deficit_kg_per_year # << >>
    /\ result.oxygen_deficit_kg_per_year
        = result.penalty_adjusted_demand_kg_per_year

C5_PerTreeSupply ==
    /\ \A s \in SoilInputs :
          (0 <= s /\ s <= 1000) =>
              /\ SoilAdjustedTreeSupply(s) * 100 * 10 = 110 * 1000 * s
              /\ (s > 0 => SoilAdjustedTreeSupply(s) > 0)
              /\ SoilAdjustedTreeSupply(s) <= 110 * 1000
    /\ outcome = "ok" =>
          /\ result.per_tree_o2_supply_kg_per_year * 100 * 10
                = 110 * 1000 * request.soil_quality
          /\ result.per_tree_o2_supply_kg_per_year > 0
          /\ result.per_tree_o2_supply_kg_per_year <= 110 * 1000

C5_Witness ==
    /\ outcome = "ok"
    /\ request.soil_quality = 650
    /\ result.per_tree_o2_supply_kg_per_year = 71500

\* C6: the penalty factors stay in their documented ranges: AQI factor in
\* [1.0, 1.75] for aqi in [0,500], soil factor in [1.0, 1.6] for
\* soil_quality in [0,100], disaster factor in [1.05, 1.5] for every
\* disaster_frequency >= 0, values above 10 included.
C6_FactorRanges ==
    /\ \A a \in AqiInputs :
          (0 <= a /\ a <= 5000) =>
              (100 <= AqiPenaltyFactor(a) /\ AqiPenaltyFactor(a) <= 175)
    /\ \A s \in SoilInputs :
          (0 <= s /\ s <= 1000) =>
              (100 <= SoilDegradationFactor(s)
               /\ SoilDegradationFactor(s) <= 160)
    /\ \A d \in DisasterInputs :
          (0 <= d) =>
              (105 <= DisasterLossFactor(d) /\ DisasterLossFactor(d) <= 150)
    /\ outcome = "ok" =>
          LET fb == result.formula_breakdown
          IN  /\ 100 <= fb.aqi_penalty_factor
              /\ fb.aqi_penalty_factor <= 175
              /\ 100 <= fb.soil_degradation_factor
              /\ fb.soil_degradation_factor <= 160
              /\ 105 <= fb.disaster_loss_factor
              /\ fb.disaster_loss_factor <= 150

\* a result for a disaster frequency above 10 and hazardous air
C6_Witness ==
    /\ outcome = "ok"
    /\ request.disaster_frequency = 250
    /\ request.aqi = 5000
    /\ request.soil_quality = 5
    /\ result.formula_breakdown.disaster_loss_factor = 150
    /\ result.formula_breakdown.aqi_penalty_factor = 175
    /\ result.formula_breakdown.soil_degradation_factor = 160

\* C7: with the other inputs held fixed, raising aqi never lowers
\* penalty_adjusted_demand_kg_per_year, raising soil_quality never raises the
\* soil factor and never lowers per_tree_o2_supply_kg_per_year, and raising
\* disaster_frequency never lowers the disaster factor.
C7_Monotonicity ==
    outcome = "ok" =>
        /\ \A a \in AqiInputs :
              LET other == [request EXCEPT !.aqi = a]
              IN  (other \in ValidRequests /\ a >= request.aqi) =>
                      BigLeq(result.penalty_adjusted_demand_kg_per_year,
                             CalculationResult(other)
                                .penalty_adjusted_demand_kg_per_year)
        /\ \A s \in SoilInputs :
              LET other == [request EXCEPT !.soil_quality = s]
                  r2    == CalculationResult(other)
              IN  (other \in ValidRequests /\ s >= request.soil_quality) =>
                      /\ r2.formula_breakdown.soil_degradation_factor
                            <= result.formula_breakdown.soil_degradation_factor
                      /\ r2.per_tree_o2_supply_kg_per_year
                            >= result.per_tree_o2_supply_kg_per_year
        /\ \A d \in DisasterInputs :
              LET other == [request EXCEPT !.disaster_frequency = d]
              IN  (other \in ValidRequests /\ d >= request.disaster_frequency)
                      => CalculationResult(other)
                            .formula_breakdown.disaster_loss_factor
                            >= result.formula_breakdown.disaster_loss_factor

\* a result below the top of every curve, so that each input can be raised
\* into a band with a different factor
C7_Witness ==
    /\ outcome = "ok"
    /\ request.aqi = 500
    /\ request.soil_quality = 400
    /\ request.disaster_frequency = 20
    /\ AqiPenaltyFactor(5000) > result.formula_breakdown.aqi_penalty_factor
    /\ SoilDegradationFactor(1000)
          < result.formula_breakdown.soil_degradation_factor
    /\ DisasterLossFactor(250) > result.formula_breakdown.disaster_loss_factor

\* C8: for aqi = 0, soil_quality = 100 and disaster_frequency = 0 the three
\* factors are their floors 1.0, 1.0 and 1.05, the adjusted demand is
\* 1.05 x the base demand and the per-tree supply is 110 kg.
C8_BestEnvironment ==
    (/\ outcome = "ok"
     /\ request.aqi = 0
     /\ request.soil_quality = 1000
     /\ request.disaster_frequency = 0) =>
        /\ result.formula_breakdown.aqi_penalty_factor = 100
        /\ result.formula_breakdown.soil_degradation_factor = 100
        /\ result.formula_breakdown.disaster_loss_factor = 105
        /\ result.penalty_adjusted_demand_kg_per_year
              = BigMul(result.human_o2_demand_kg_per_year, BigOfNat(1050000))
        /\ result.per_tree_o2_supply_kg_per_year = 110000

C8_Witness ==
    /\ outcome = "ok"
    /\ request.population = 12765000
    /\ request.aqi = 0
    /\ request.soil_quality = 1000
    /\ request.disaster_frequency = 0

\* C9: a call with soil_quality = 0 and otherwise valid input fails with the
\* division-by-zero error and returns no result, so no result with an
\* infinite or undefined trees_required or trees_required_hectares exists.
C9_ZeroSoilFails ==
    (/\ outcome # "idle"
     /\ request.soil_quality = 0
     /\ request.population > 0
     /\ 0 <= request.aqi
     /\ request.aqi <= 5000
     /\ request.disaster_frequency >= 0) =>
        /\ outcome = "DivisionByZeroError"
        /\ result = NoResult

C9_Witness ==
    /\ outcome = "DivisionByZeroError"
    /\ request.soil_quality = 0
    /\ request.population = 1
    /\ result = NoResult

\* C10: a call with population <= 0, aqi outside [0,500], soil_quality
\* outside [0,100] or disaster_frequency < 0 fails with a ValidationError
\* that names every offending field, and returns no result.
C10_InvalidInputRejected ==
    LET badPopulation == request.population <= 0
        badAqi        == request.aqi < 0 \/ request.aqi > 5000
        badSoil       == request.soil_quality < 0 \/ request.soil_quality > 1000
        badDisaster   == request.disaster_frequency < 0
    IN  (outcome # "idle"
         /\ (badPopulation \/ badAqi \/ badSoil \/ badDisaster)) =>
            /\ outcome = "ValidationError"
            /\ result = NoResult
            /\ badPopulation => "population" \in errors
            /\ badAqi => "aqi" \in errors
            /\ badSoil => "soil_quality" \in errors
            /\ badDisaster => "disaster_frequency" \in errors

C10_Witness ==
    /\ outcome = "ValidationError"
    /\ request.population = 0
    /\ request.aqi = 1565
    /\ request.soil_quality = 650
    /\ errors = {"population"}
    /\ result = NoResult

\* the request of the README's example
SampleRequest ==
    [population |-> 12765000, aqi |-> 1565, soil_quality |-> 650,
     disaster_frequency |-> 32]

C13_HectaresRounded ==
    /\ outcome = "ok" =>
          LET t == BigMulSmall(result.trees_required, 2 * 100)
              h == BigMulSmall(result.trees_required_hectares, 2 * 400)
          IN  /\ BigLeq(h, BigAdd(t, BigOfNat(400)))
              /\ BigLeq(t, BigAdd(h, BigOfNat(400)))
    /\ TreesRequiredHectares(BigOfNat(6762345)) = BigOfNat(1690586)

\* a result whose tree count is 3 above a multiple of 4, so that the area is
\* rounded up
C13_Witness ==
    /\ outcome = "ok"
    /\ BigDivSmall(result.trees_required, 4).r = 3
    /\ result.trees_required_hectares
          = BigAdd(BigDivSmall(result.trees_required, 4).q, <<1>>)

\* a well-formed natural: digits in range, no leading zero digit
IsNatural(b) ==
    /\ \A i \in 1 .. Len(b) : 0 <= b[i] /\ b[i] < Limb
    /\ b # << >> => b[Len(b)] # 0

\* C14: in every result every numeric field is >= 0 and trees_required is a
\* non-negative integer, at least 1 (a result exists only for population > 0
\* and soil_quality > 0).
C14_NonNegative ==
    outcome = "ok" =>
        LET fb == result.formula_breakdown
        IN  /\ request.population > 0
            /\ request.soil_quality > 0
            /\ result.population > 0
            /\ IsNatural(result.human_o2_demand_kg_per_year)
            /\ IsNatural(result.penalty_adjusted_demand_kg_per_year)
            /\ IsNatural(result.oxygen_deficit_kg_per_year)
            /\ IsNatural(result.trees_required)
            /\ IsNatural(result.trees_required_hectares)
            /\ result.per_tree_o2_supply_kg_per_year >= 0
            /\ IsNatural(fb.human_o2_demand_kg)
            /\ IsNatural(fb.adjusted_o2_demand_kg)
            /\ fb.aqi_penalty_factor >= 0
            /\ fb.soil_degradation_factor >= 0
            /\ fb.disaster_loss_factor >= 0
            /\ fb.soil_adjusted_tree_supply_kg >= 0
            /\ BigLeq(<<1>>, result.trees_required)

\* the smallest result of the inputs: one person, clean air, perfect soil
C14_Witness ==
    /\ outcome = "ok"
    /\ request.population = 1
    /\ request.aqi = 0
    /\ request.soil_quality = 1000
    /\ request.disaster_frequency = 0
    /\ result.trees_required = <<3>>
    /\ result.trees_required_hectares = <<1>>

---------------------------------------------------------------------------
(* Concurrent calls of calculate: every caller runs the pipeline on its own *)
(* request, one step at a time, interleaved with the other callers         *)

ConcRequests ==
    {[population |-> 1, aqi |-> 0, soil_quality |-> 650,
      disaster_frequency |-> 0],
     [population |-> 2, aqi |-> 1565, soil_quality |-> 650,
      disaster_frequency |-> 32],
     [population |-> 0, aqi |-> 5001, soil_quality |-> 650,
      disaster_frequency |-> 32],
     [population |-> 1, aqi |-> 0, soil_quality |-> 0,
      disaster_frequency |-> 0]}

\* the request a step of caller c works on, read from a slot shared by all
\* callers: the request of the first caller in flight
CallInput_SharedSlot(c) ==
    calls[CHOOSE d \in Callers :
            /\ calls[d].pc # "idle"
            /\ \A e \in Callers : calls[e].pc # "idle" => d <= e].request

\* the request a step of caller c works on: its own argument
CallInput(c) == calls[c].request

Receive(c, req) ==
    /\ calls[c].pc = "idle"
    /\ calls' = [calls EXCEPT ![c] = [NoCall EXCEPT !.pc = "validate",
                                                     !.request = req]]
    /\ UNCHANGED <<answered, notConcVars>>

Validate(c) ==
    /\ calls[c].pc = "validate"
    /\ LET bad == InvalidFields(CallInput(c))
       IN  calls' = [calls EXCEPT ![c] =
                IF bad # {}
                THEN [@ EXCEPT !.pc = "respond", !.outcome = "ValidationError",
                               !.errors = bad]
                ELSE [@ EXCEPT !.pc = "compute"]]
    /\ UNCHANGED <<answered, notConcVars>>

Compute(c) ==
    /\ calls[c].pc = "compute"
    /\ LET req == CallInput(c)
       IN  calls' = [calls EXCEPT ![c] =
                IF SoilAdjustedTreeSupply(req.soil_quality) = 0
                THEN [@ EXCEPT !.pc = "respond",
                               !.outcome = "DivisionByZeroError"]
                ELSE [@ EXCEPT !.pc = "respond", !.outcome = "ok",
                               !.result = CalculationResult(req)]]
    /\ UNCHANGED <<answered, notConcVars>>

Respond(c) ==
    /\ calls[c].pc = "respond"
    /\ answered' = answered \cup
            {[request |-> calls[c].request, outcome |-> calls[c].outcome,
              errors |-> calls[c].errors, result |-> calls[c].result]}
    /\ calls' = [calls EXCEPT ![c] = NoCall]
    /\ UNCHANGED notConcVars

ConcNext ==
    \E c \in Callers :
        \/ \E req \in ConcRequests : Receive(c, req)
        \/ Validate(c)
        \/ Compute(c)
        \/ Respond(c)

SpecConcurrent == Init /\ [][ConcNext]_vars

---------------------------------------------------------------------------
(* The data providers: Gemini AI, then the published table, then the       *)
(* built-in fallback table, then a fixed default.  AQI, soil quality and   *)
(* disaster frequency are in tenths, as in calculate.  Strings that are    *)
(* split and matched are sequences of tokens: names, "," "(" ")" and " ".  *)

\* an optional field of a parsed Gemini reply: undefined, or a value
Undefined == [set |-> FALSE, v |-> 0]

Opt(values) == {Undefined} \cup {[set |-> TRUE, v |-> x] : x \in values}

\* JavaScript truthiness of an optional number
Truthy(f) == f.set /\ f.v # 0

SourceNames == {"NDMA", "Soil Health Card Published"}

GeminiData ==
    [population : Opt({0, 1000, 50000000, 50000001}),
     aqi : Opt({-1, 0, 5000, 5001}),
     soilQuality : Opt({-1, 0, 1000, 1001}),
     disasterFrequency : Opt({-1, 0, 200, 201}),
     commonDisasters : BOOLEAN,
     sources : Opt({<< >>, <<"NDMA">>,
                    <<"Soil Health Card Published", "NDMA">>})]

\* how the Gemini call of a provider goes: the dynamic import fails, the API
\* key is missing, fetch rejects, the response is not ok, it carries no text,
\* the text holds no JSON, or the text parses to a reply
GeminiOutcomes ==
    {[kind |-> k] : k \in {"import fails", "no api key", "fetch rejects",
                           "not ok", "no text", "no json"}}
        \cup {[kind |-> "data", data |-> d] : d \in GeminiData}

Null == [kind |-> "null"]

\* null unless the text parsed; nothing thrown inside leaves the function
fetchDistrictDataWithGemini(gemini) ==
    IF gemini.kind = "data" THEN gemini ELSE Null

\* an entry of a published table (DISASTER_FREQUENCY_DATA,
\* SOIL_HEALTH_INDICES, CENSUS_2021_DISTRICT_POPULATION) for the slug
NotPublished == [found |-> FALSE, v |-> 0]

Published(values) == {NotPublished} \cup {[found |-> TRUE, v |-> x] : x \in values}

Slugs == {"delhi", "elsewhere"}

fallbackDisasterData ==
    [s \in {"bangalore-urban", "mumbai-city", "delhi", "pune", "hyderabad",
            "chennai", "kolkata", "jaipur", "lucknow", "ahmedabad"} |->
        CASE s = "bangalore-urban" -> 21
          [] s = "mumbai-city" -> 58
          [] s = "delhi" -> 32
          [] s = "pune" -> 35
          [] s = "hyderabad" -> 38
          [] s = "chennai" -> 62
          [] s = "kolkata" -> 55
          [] s = "jaipur" -> 28
          [] s = "lucknow" -> 41
          [] s = "ahmedabad" -> 34]

fallbackSoilQuality ==
    [s \in {"bangalore-urban", "mumbai-city", "delhi", "pune", "hyderabad",
            "chennai", "kolkata", "jaipur", "lucknow", "ahmedabad"} |->
        CASE s = "bangalore-urban" -> 580
          [] s = "mumbai-city" -> 420
          [] s = "delhi" -> 480
          [] s = "pune" -> 620
          [] s = "hyderabad" -> 550
          [] s = "chennai" -> 510
          [] s = "kolkata" -> 600
          [] s = "jaipur" -> 470
          [] s = "lucknow" -> 650
          [] s = "ahmedabad" -> 450]

fallbackPopulationData ==
    [s \in {"bangalore-urban", "mumbai-city", "delhi", "pune", "hyderabad",
            "chennai", "kolkata", "jaipur", "lucknow", "ahmedabad"} |->
        CASE s = "bangalore-urban" -> 12765000
          [] s = "mumbai-city" -> 12442373
          [] s = "delhi" -> 16787941
          [] s = "pune" -> 7427000
          [] s = "hyderabad" -> 10456000
          [] s = "chennai" -> 10971000
          [] s = "kolkata" -> 14850000
          [] s = "jaipur" -> 3073350
          [] s = "lucknow" -> 2817105
          [] s = "ahmedabad" -> 8450000]

\* table[slug] || otherwise
LookupOr(table, slug, otherwise) ==
    IF slug \in DOMAIN table /\ table[slug] # 0 THEN table[slug] ELSE otherwise

\* names.join(', ')
RECURSIVE Join(_)
Join(names) ==
    IF names = << >> THEN << >>
    ELSE IF Len(names) = 1 THEN <<names[1]>>
    ELSE <<names[1], ",", " ">> \o Join(Tail(names))

\* `gemini_ai (${sources?.join(', ') || fallbackText})`
GeminiLabel(sources, fallbackText) ==
    LET joined == IF sources.set THEN Join(sources.v) ELSE << >>
    IN  <<"gemini_ai", " ", "(">>
            \o (IF joined = << >> THEN <<fallbackText>> ELSE joined)
            \o <<")">>

\* every present field is checked, absent ones are not
validateGeminiData_SoilOnly(data) ==
    LET errs ==
            IF data.soilQuality.set
               /\ (data.soilQuality.v < 0 \/ data.soilQuality.v > 1000)
            THEN <<"Soil quality out of valid range (0-100)">>
            ELSE << >>
    IN  [valid |-> Len(errs) = 0, errors |-> errs]

validateGeminiData(data) ==
    LET errs ==
            (IF data.population.set
                /\ (data.population.v < 1000 \/ data.population.v > 50000000)
             THEN <<"Population out of reasonable range">> ELSE << >>)
         \o (IF data.aqi.set /\ (data.aqi.v < 0 \/ data.aqi.v > 5000)
             THEN <<"AQI out of valid range (0-500)">> ELSE << >>)
         \o (IF data.soilQuality.set
                /\ (data.soilQuality.v < 0 \/ data.soilQuality.v > 1000)
             THEN <<"Soil quality out of valid range (0-100)">> ELSE << >>)
         \o (IF data.disasterFrequency.set
                /\ (data.disasterFrequency.v < 0
                    \/ data.disasterFrequency.v > 200)
             THEN <<"Disaster frequency out of reasonable range">>
             ELSE << >>)
    IN  [valid |-> Len(errs) = 0, errors |-> errs]

DisasterWanted(d) == Truthy(d.disasterFrequency) /\ d.commonDisasters

\* the soil quality tested for presence where it is tested for truth
SoilWanted_Defined(d) == d.soilQuality.set

SoilWanted(d) == Truthy(d.soilQuality)

PopulationWanted(d) == Truthy(d.population)

\* the test a provider makes of the reply it asked for with its dataType
Wanted(dataType, d) ==
    CASE dataType = "disasters" -> DisasterWanted(d)
      [] dataType = "soil_quality" -> SoilWanted(d)
      [] dataType = "population" -> PopulationWanted(d)

\* the Gemini branch of a provider is taken: names given, no exception, a
\* reply whose wanted field is truthy, and a reply that validates
GeminiUsable(named, gemini, dataType) ==
    /\ named
    /\ gemini.kind # "import fails"
    /\ LET geminiData == fetchDistrictDataWithGemini(gemini)
       IN  /\ geminiData.kind = "data"
           /\ Wanted(dataType, geminiData.data)
           /\ validateGeminiData(geminiData.data).valid

getDisasterData(slug, named, gemini, published) ==
    IF GeminiUsable(named, gemini, "disasters")
    THEN [disasterFrequency |-> gemini.data.disasterFrequency.v,
          source |-> GeminiLabel(gemini.data.sources, "ndma data")]
    ELSE [disasterFrequency |->
              IF published.found THEN published.v
              ELSE IF slug \in DOMAIN fallbackDisasterData
                   THEN fallbackDisasterData[slug]
                   ELSE 30,
          source |-> IF published.found
                     THEN <<"ndma_published_statistics">>
                     ELSE <<"estimate">>]

getSoilQualityData(slug, named, gemini, published) ==
    IF GeminiUsable(named, gemini, "soil_quality")
    THEN [soilQuality |-> gemini.data.soilQuality.v,
          source |-> GeminiLabel(gemini.data.sources, "soil health data")]
    ELSE LET publishedIndex == IF published.found THEN published.v ELSE 0
         IN  [soilQuality |->
                  IF publishedIndex # 0 THEN publishedIndex
                  ELSE LookupOr(fallbackSoilQuality, slug, 500),
              source |-> IF publishedIndex # 0
                         THEN <<"soil_health_card_published">>
                         ELSE <<"estimate">>]

\* without the try/catch the failed import rejects the call
getPopulationData_Uncaught(slug, named, gemini, published) ==
    IF named /\ gemini.kind = "import fails"
    THEN [rejected |-> "import fails"]
    ELSE [population |-> LookupOr(fallbackPopulationData, slug, 1000000),
          source |-> <<"estimate">>]

getPopulationData(slug, named, gemini, published) ==
    IF GeminiUsable(named, gemini, "population")
    THEN [population |-> gemini.data.population.v,
          source |-> GeminiLabel(gemini.data.sources, "census data")]
    ELSE LET censusPopulation == IF published.found THEN published.v ELSE 0
         IN  [population |->
                  IF censusPopulation # 0 THEN censusPopulation
                  ELSE LookupOr(fallbackPopulationData, slug, 1000000),
              source |-> IF censusPopulation # 0
                         THEN <<"census_2021_projection">>
                         ELSE <<"estimate">>]

\* a call of one of the exported functions, from the call to its answer
ProviderCall(fn, slug, named, gemini, published, out) ==
    [pc |-> "done", fn |-> fn, slug |-> slug, named |-> named,
     gemini |-> gemini, published |-> published, out |-> out]

\* the inputs of a provider call: the slug, whether the district and state
\* names were passed, what Gemini gives, and the published table's entry
ValidateGeminiData ==
    /\ prov.pc = "idle"
    /\ \E data \in GeminiData :
        prov' = [pc |-> "done", fn |-> "validateGeminiData",
                 gemini |-> [kind |-> "data", data |-> data],
                 out |-> validateGeminiData(data)]
    /\ UNCHANGED notProvVars

GetDisasterData ==
    /\ prov.pc = "idle"
    /\ \E slug \in Slugs, named \in BOOLEAN, gemini \in GeminiOutcomes,
          published \in Published({0, 45}) :
        prov' = ProviderCall("getDisasterData", slug, named, gemini, published,
                             getDisasterData(slug, named, gemini, published))
    /\ UNCHANGED notProvVars

GetSoilQualityData ==
    /\ prov.pc = "idle"
    /\ \E slug \in Slugs, named \in BOOLEAN, gemini \in GeminiOutcomes,
          published \in Published({0, 720}) :
        prov' = ProviderCall("getSoilQualityData", slug, named, gemini,
                             published,
                             getSoilQualityData(slug, named, gemini, published))
    /\ UNCHANGED notProvVars

GetPopulationData ==
    /\ prov.pc = "idle"
    /\ \E slug \in Slugs, named \in BOOLEAN, gemini \in GeminiOutcomes,
          published \in Published({0, 2000000}) :
        prov' = ProviderCall("getPopulationData", slug, named, gemini,
                             published,
                             getPopulationData(slug, named, gemini, published))
    /\ UNCHANGED notProvVars

\* the route stores the soil quality it got and sends the stored value
\* to the calculation service
PostSoilQuality ==
    /\ prov.pc = "done"
    /\ prov.fn = "getSoilQualityData"
    /\ LET envData == [soilQuality |-> prov.out.soilQuality]
       IN  prov' = [pc |-> "posted", fn |-> prov.fn, slug |-> prov.slug,
                    named |-> prov.named, gemini |-> prov.gemini,
                    published |-> prov.published, out |-> prov.out,
                    body |-> [soil_quality |-> envData.soilQuality]]
    /\ UNCHANGED notProvVars

ProviderReturn ==
    /\ prov.pc \in {"done", "posted"}
    /\ prov' = NoProviderCall
    /\ UNCHANGED notProvVars

ProvidersNext ==
    \/ ValidateGeminiData
    \/ GetDisasterData
    \/ GetSoilQualityData
    \/ GetPopulationData
    \/ PostSoilQuality
    \/ ProviderReturn

SpecProviders == Init /\ [][ProvidersNext]_vars

(* C19: validateGeminiData answers valid exactly when every field of the    *)
(* reply that is present lies in its range (population 1000..50,000,000,   *)
(* AQI 0..500, soil quality 0..100, disaster frequency 0..20), an absent   *)
(* field is never an error, and the errors are as many as the present      *)
(* fields that are out of range.                                           *)
OutOfRange(data) ==
    {f \in {"population", "aqi", "soilQuality", "disasterFrequency"} :
        /\ data[f].set
        /\ CASE f = "population" ->
                    ~(1000 <= data[f].v /\ data[f].v <= 50000000)
             [] f = "aqi" -> ~(0 <= data[f].v /\ data[f].v <= 500 * 10)
             [] f = "soilQuality" -> ~(0 <= data[f].v /\ data[f].v <= 100 * 10)
             [] f = "disasterFrequency" ->
                    ~(0 <= data[f].v /\ data[f].v <= 20 * 10)}

C19_ValidIffPresentFieldsInRange ==
    (prov.pc = "done" /\ prov.fn = "validateGeminiData") =>
        /\ prov.out.valid <=> OutOfRange(prov.gemini.data) = {}
        /\ Len(prov.out.errors) = Cardinality(OutOfRange(prov.gemini.data))

\* a reply with an absent field, a field on its bound and two fields out of
\* range is answered with two errors
C19_Witness ==
    /\ prov.pc = "done" /\ prov.fn = "validateGeminiData"
    /\ ~prov.gemini.data.population.set
    /\ prov.gemini.data.aqi = [set |-> TRUE, v |-> 5001]
    /\ prov.gemini.data.soilQuality = [set |-> TRUE, v |-> 1000]
    /\ prov.gemini.data.disasterFrequency = [set |-> TRUE, v |-> -1]
    /\ ~prov.out.valid
    /\ Len(prov.out.errors) = 2

Providers == {"getDisasterData", "getSoilQualityData", "getPopulationData"}

\* the field of the reply and of the return value a provider is about
ValueField(fn) ==
    CASE fn = "getDisasterData" -> "disasterFrequency"
      [] fn = "getSoilQualityData" -> "soilQuality"
      [] fn = "getPopulationData" -> "population"

IsGeminiLabel(source) ==
    /\ Len(source) >= 5
    /\ SubSeq(source, 1, 3) = <<"gemini_ai", " ", "(">>
    /\ source[Len(source)] = ")"

(* C17: a provider never fails.  Whatever the slug, whether or not the     *)
(* names are given, and whether the Gemini call throws, gives null or      *)
(* gives a reply out of range, the call returns a record with a numeric    *)
(* value and a non-empty source label.                                     *)
C17_ProvidersNeverFail ==
    (prov.pc = "done" /\ prov.fn \in Providers) =>
        /\ {ValueField(prov.fn), "source"} \subseteq DOMAIN prov.out
        /\ prov.out[ValueField(prov.fn)] \in Nat
        /\ prov.out.source # << >>

\* the import fails for a district that is in no table: the default comes back
C17_Witness ==
    /\ prov.pc = "done" /\ prov.fn = "getPopulationData"
    /\ prov.named /\ prov.gemini.kind = "import fails"
    /\ prov.slug = "elsewhere" /\ ~prov.published.found
    /\ prov.out = [population |-> 1000000, source |-> <<"estimate">>]

\* a reply out of range is passed over for the published entry
C17_WitnessOutOfRange ==
    /\ prov.pc = "done" /\ prov.fn = "getSoilQualityData"
    /\ prov.named /\ prov.gemini.kind = "data"
    /\ prov.gemini.data.soilQuality = [set |-> TRUE, v |-> 1001]
    /\ prov.published = [found |-> TRUE, v |-> 720]
    /\ prov.out = [soilQuality |-> 720,
                   source |-> <<"soil_health_card_published">>]

\* the government label of a provider's published table
PublishedLabel(fn) ==
    CASE fn = "getDisasterData" -> <<"ndma_published_statistics">>
      [] fn = "getSoilQualityData" -> <<"soil_health_card_published">>
      [] fn = "getPopulationData" -> <<"census_2021_projection">>

FallbackTable(fn) ==
    CASE fn = "getDisasterData" -> fallbackDisasterData
      [] fn = "getSoilQualityData" -> fallbackSoilQuality
      [] fn = "getPopulationData" -> fallbackPopulationData

\* 3.0, 50 and 1,000,000
FixedDefault(fn) ==
    CASE fn = "getDisasterData" -> 3 * 10
      [] fn = "getSoilQualityData" -> 50 * 10
      [] fn = "getPopulationData" -> 1000000

\* Gemini has a value for the provider: the names were given, a reply came
\* that carries the provider's field (and, for disasters, the list of
\* common disasters), and the reply validates
GeminiAvailable ==
    /\ prov.named
    /\ prov.gemini.kind = "data"
    /\ prov.gemini.data[ValueField(prov.fn)].set
    /\ prov.fn = "getDisasterData" => prov.gemini.data.commonDisasters
    /\ validateGeminiData(prov.gemini.data).valid

\* the published table has an entry for the slug (a number 0 is no entry)
PublishedAvailable ==
    /\ prov.published.found
    /\ prov.fn # "getDisasterData" => prov.published.v # 0

(* C16: a provider returns the value of the first source that has one, in  *)
(* the documented order: Gemini AI when the names are given and the reply  *)
(* validates, else the published table, else the fallback table, else the  *)
(* fixed default (3.0 / 50 / 1,000,000); the label is 'gemini_ai (...)'    *)
(* for a Gemini value, the government label for a published value and      *)
(* 'estimate' for the other two.                                           *)
C16_FirstAvailableSource ==
    (prov.pc = "done" /\ prov.fn \in Providers) =>
        LET value == prov.out[ValueField(prov.fn)]
            label == prov.out.source
        IN  IF GeminiAvailable
            THEN /\ value = prov.gemini.data[ValueField(prov.fn)].v
                 /\ IsGeminiLabel(label)
            ELSE IF PublishedAvailable
            THEN /\ value = prov.published.v
                 /\ label = PublishedLabel(prov.fn)
            ELSE IF prov.slug \in DOMAIN FallbackTable(prov.fn)
            THEN /\ value = FallbackTable(prov.fn)[prov.slug]
                 /\ label = <<"estimate">>
            ELSE /\ value = FixedDefault(prov.fn)
                 /\ label = <<"estimate">>

\* the same order when a Gemini value of 0 counts as no value, as the
\* truthiness tests of the providers take it
C16_FirstTruthySource ==
    (prov.pc = "done" /\ prov.fn \in Providers) =>
        LET value == prov.out[ValueField(prov.fn)]
            label == prov.out.source
        IN  IF GeminiAvailable /\ prov.gemini.data[ValueField(prov.fn)].v # 0
            THEN /\ value = prov.gemini.data[ValueField(prov.fn)].v
                 /\ IsGeminiLabel(label)
            ELSE IF PublishedAvailable
            THEN /\ value = prov.published.v
                 /\ label = PublishedLabel(prov.fn)
            ELSE IF prov.slug \in DOMAIN FallbackTable(prov.fn)
            THEN /\ value = FallbackTable(prov.fn)[prov.slug]
                 /\ label = <<"estimate">>
            ELSE /\ value = FixedDefault(prov.fn)
                 /\ label = <<"estimate">>

\* Gemini reports a disaster frequency of 0 that validates, and the call
\* answers with the default 3.0 labelled 'estimate'
C16_ZeroFromGeminiDropped ==
    /\ prov.pc = "done" /\ prov.fn = "getDisasterData"
    /\ GeminiAvailable
    /\ prov.gemini.data.disasterFrequency.v = 0
    /\ prov.slug = "elsewhere" /\ ~prov.published.found
    /\ prov.out = [disasterFrequency |-> 30, source |-> <<"estimate">>]

---------------------------------------------------------------------------
(* Attribution: the route stores the three providers' labels joined by     *)
(* commas, and the district page passes the stored string to               *)
(* validateDataSource.                                                     *)

RegistryKeys ==
    {"gemini_ai", "openweathermap", "census_2021_projection", "fsi_isfr_2021",
     "ndma_published_statistics", "nbss_soil_surveys",
     "soil_health_card_published", "cpcb_published_average", "estimate",
     "fallback"}

VALIDATED_DATA_SOURCES ==
    [k \in RegistryKeys |->
        CASE k = "gemini_ai" ->
                [name |-> <<"Google Gemini AI">>, type |-> "ai",
                 description |-> "AI-powered data aggregation from multiple government sources",
                 reliability |-> "medium"]
          [] k = "openweathermap" ->
                [name |-> <<"OpenWeatherMap Air Pollution API">>, type |-> "api",
                 description |-> "Real-time air quality data including AQI and PM2.5",
                 reliability |-> "high"]
          [] k = "census_2021_projection" ->
                [name |-> <<"Census of India 2021 Projections">>,
                 type |-> "government",
                 description |-> "Official population data from Government of India Census",
                 reliability |-> "high"]
          [] k = "fsi_isfr_2021" ->
                [name |-> <<"Forest Survey of India - ISFR 2021">>,
                 type |-> "government",
                 description |-> "Official forest cover and tree data from Ministry of Environment",
                 reliability |-> "high"]
          [] k = "ndma_published_statistics" ->
                [name |-> <<"National Disaster Management Authority">>,
                 type |-> "government",
                 description |-> "Official disaster frequency and type data",
                 reliability |-> "high"]
          [] k = "nbss_soil_surveys" ->
                [name |-> <<"ICAR-NBSS&LUP Soil Surveys">>,
                 type |-> "government",
                 description |-> "Soil quality data from National Bureau of Soil Survey",
                 reliability |-> "high"]
          [] k = "soil_health_card_published" ->
                [name |-> <<"Soil Health Card Scheme">>, type |-> "government",
                 description |-> "Published soil health indices from Government of India",
                 reliability |-> "high"]
          [] k = "cpcb_published_average" ->
                [name |-> <<"Central Pollution Control Board">>,
                 type |-> "government",
                 description |-> "Published AQI averages from CPCB",
                 reliability |-> "high"]
          [] k = "estimate" ->
                [name |-> <<"Statistical Estimate">>, type |-> "estimate",
                 description |-> "Calculated estimate based on regional averages and patterns",
                 reliability |-> "low"]
          [] k = "fallback" ->
                [name |-> <<"Fallback Data">>, type |-> "fallback",
                 description |-> "Default values used when primary sources are unavailable",
                 reliability |-> "low"]]

\* the index of the first token of str that is in tokens, 0 if there is none
FirstIndexOf(str, tokens) ==
    IF \E i \in 1 .. Len(str) : str[i] \in tokens
    THEN CHOOSE i \in 1 .. Len(str) :
            /\ str[i] \in tokens
            /\ \A j \in 1 .. i - 1 : str[j] \notin tokens
    ELSE 0

\* str.split(',')
RECURSIVE Split(_)
Split(str) ==
    LET i == FirstIndexOf(str, {","})
    IN  IF i = 0 THEN <<str>>
        ELSE <<SubSeq(str, 1, i - 1)>> \o Split(SubSeq(str, i + 1, Len(str)))

\* s.trim()
RECURSIVE Trim(_)
Trim(str) ==
    IF str = << >> THEN str
    ELSE IF Head(str) = " " THEN Trim(Tail(str))
    ELSE IF str[Len(str)] = " " THEN Trim(SubSeq(str, 1, Len(str) - 1))
    ELSE str

\* sourceString.split(',').map(s => s.trim())
SplitAndTrim(str) ==
    LET parts == Split(str)
    IN  [i \in 1 .. Len(parts) |-> Trim(parts[i])]

\* the first index from i on whose token is not white space (Len + 1 if none)
SkipSpaces(str, i) ==
    CHOOSE j \in i .. Len(str) + 1 :
        /\ j = Len(str) + 1 \/ str[j] # " "
        /\ \A k \in i .. j - 1 : str[k] = " "

\* the index of the first ")" after j, 0 if there is none
ClosingAfter(str, j) ==
    IF \E k \in j + 1 .. Len(str) : str[k] = ")"
    THEN CHOOSE k \in j + 1 .. Len(str) :
            /\ str[k] = ")"
            /\ \A m \in j + 1 .. k - 1 : str[m] # ")"
    ELSE 0

\* /gemini_ai\s*\(([^)]+)\)/ matches with "gemini_ai" at index i
MatchesAt(str, i) ==
    /\ str[i] = "gemini_ai"
    /\ LET j == SkipSpaces(str, i + 1)
       IN  /\ j <= Len(str)
           /\ str[j] = "("
           /\ ClosingAfter(str, j) > j + 1

NoMatch == [matched |-> FALSE, group |-> << >>]

\* source.match(/gemini_ai\s*\(([^)]+)\)/): the leftmost match and its group
GeminiMatch(str) ==
    IF \E i \in 1 .. Len(str) : MatchesAt(str, i)
    THEN LET i == CHOOSE i \in 1 .. Len(str) :
                    /\ MatchesAt(str, i)
                    /\ \A h \in 1 .. i - 1 : ~MatchesAt(str, h)
             j == SkipSpaces(str, i + 1)
         IN  [matched |-> TRUE,
              group |-> SubSeq(str, j + 1, ClosingAfter(str, j) - 1)]
    ELSE NoMatch

\* gs.toLowerCase().replace(/\s+/g, '_') of the source names that occur
LowerSnake(name) ==
    CASE name = "NDMA" -> "ndma"
      [] name = "CPCB" -> "cpcb"
      [] name = "Soil Health Card Published" -> "soil_health_card_published"
      [] name = "ndma data" -> "ndma_data"
      [] name = "soil health data" -> "soil_health_data"
      [] OTHER -> name

\* the registry entries a Gemini label refers to by name
RECURSIVE ReferencedSources(_)
ReferencedSources(geminiSources) ==
    IF geminiSources = << >> THEN << >>
    ELSE LET gs == Head(geminiSources)
         IN  (IF Len(gs) = 1 /\ LowerSnake(gs[1]) \in RegistryKeys
              THEN <<VALIDATED_DATA_SOURCES[LowerSnake(gs[1])]>>
              ELSE << >>)
                 \o ReferencedSources(Tail(geminiSources))

UnknownSource(source) ==
    [name |-> source, type |-> "estimate",
     description |-> "Unknown or unverified data source",
     reliability |-> "low"]

\* the body of the loop over the pieces of the stored string
ValidatedFor(source) ==
    IF Len(source) = 1 /\ source[1] \in RegistryKeys
    THEN <<VALIDATED_DATA_SOURCES[source[1]]>>
    ELSE IF \E i \in 1 .. Len(source) : source[i] = "gemini_ai"
    THEN LET match == GeminiMatch(source)
         IN  IF match.matched
             THEN <<VALIDATED_DATA_SOURCES["gemini_ai"]>>
                      \o ReferencedSources(SplitAndTrim(match.group))
             ELSE <<VALIDATED_DATA_SOURCES["gemini_ai"]>>
    ELSE <<UnknownSource(source)>>

RECURSIVE ValidatedAll(_)
ValidatedAll(sources) ==
    IF sources = << >> THEN << >>
    ELSE ValidatedFor(Head(sources)) \o ValidatedAll(Tail(sources))

validateDataSource(sourceString) ==
    IF sourceString = << >>
    THEN <<VALIDATED_DATA_SOURCES["estimate"]>>
    ELSE LET validated == ValidatedAll(SplitAndTrim(sourceString))
         IN  IF Len(validated) > 0 THEN validated
             ELSE <<VALIDATED_DATA_SOURCES["estimate"]>>

\* the labels getAQIData gives, by the documented priority of its sources
AqiSources ==
    {<<"openweathermap">>, <<"cpcb_published_average">>, <<"estimate">>,
     GeminiLabel([set |-> TRUE, v |-> <<"CPCB">>], "cpcb data"),
     GeminiLabel([set |-> TRUE, v |-> <<"CPCB", "NDMA">>], "cpcb data")}

\* the labels the soil and disaster providers can give
SoilSources ==
    {getSoilQualityData(slug, named, gemini, published).source :
        slug \in Slugs, named \in BOOLEAN, gemini \in GeminiOutcomes,
        published \in Published({0, 720})}

DisasterSources ==
    {getDisasterData(slug, named, gemini, published).source :
        slug \in Slugs, named \in BOOLEAN, gemini \in GeminiOutcomes,
        published \in Published({0, 45})}

\* `${aqiData.source},${soilData.source},${disasterData.source}`
StoredDataSource(aqiSource, soilSource, disasterSource) ==
    aqiSource \o <<",">> \o soilSource \o <<",">> \o disasterSource

\* the route stores the labels of a refresh and the page validates them
StoreAndValidate ==
    /\ attribution.pc = "idle"
    /\ \E aqiSource \in AqiSources, soilSource \in SoilSources,
          disasterSource \in DisasterSources :
        LET dataSource ==
                StoredDataSource(aqiSource, soilSource, disasterSource)
        IN  attribution' =
                [pc |-> "done",
                 labels |-> <<aqiSource, soilSource, disasterSource>>,
                 dataSource |-> dataSource,
                 validated |-> validateDataSource(dataSource)]
    /\ UNCHANGED notAttrVars

\* the sources of reliability 'low' or 'medium'
LowReliability_NotHigh(sources) ==
    SelectSeq(sources, LAMBDA src : src.reliability # "high")

\* sources.filter(s => s.reliability === 'low')
LowReliability(sources) ==
    SelectSeq(sources, LAMBDA src : src.reliability = "low")

\* `Using ${lowReliability.length} low-reliability source(s)`
LowReliabilityIssue(n) ==
    [text |-> "Using n low-reliability source(s)", n |-> n]

AllEstimatesIssue ==
    [text |-> "All data sources are estimates - no verified data available",
     n |-> 0]

\* validateEnvironmentalDataSources(dataSourceString), the argument being
\* optional
validateEnvironmentalDataSources(dataSourceString) ==
    LET sources ==
            validateDataSource(IF dataSourceString.set
                               THEN dataSourceString.v ELSE << >>)
        lowReliability == LowReliability(sources)
        issues ==
            (IF Len(lowReliability) > 0
             THEN <<LowReliabilityIssue(Len(lowReliability))>> ELSE << >>)
            \o (IF \A i \in 1 .. Len(sources) :
                       sources[i].type \in {"estimate", "fallback"}
                THEN <<AllEstimatesIssue>> ELSE << >>)
    IN  [valid |-> Len(issues) = 0, sources |-> sources, issues |-> issues]

\* the strings a record can hold in dataSource: none, an empty one, what
\* the route stores
DataSourceStrings ==
    {[set |-> FALSE, v |-> << >>], [set |-> TRUE, v |-> << >>]}
    \cup {[set |-> TRUE,
           v |-> StoredDataSource(aqiSource, soilSource, disasterSource)] :
             aqiSource \in AqiSources, soilSource \in SoilSources,
             disasterSource \in DisasterSources}

\* the page validates the sources of a record
ValidateEnvironmentalDataSources ==
    /\ attribution.pc = "idle"
    /\ \E dataSourceString \in DataSourceStrings :
          attribution' =
              [pc |-> "checked",
               dataSourceString |-> dataSourceString,
               result |-> validateEnvironmentalDataSources(dataSourceString)]
    /\ UNCHANGED notAttrVars

AttributionReturn ==
    /\ attribution.pc # "idle"
    /\ attribution' = NoAttribution
    /\ UNCHANGED notAttrVars

AttributionNext ==
    \/ StoreAndValidate
    \/ ValidateEnvironmentalDataSources
    \/ AttributionReturn

SpecAttribution == Init /\ [][AttributionNext]_vars

RegistryEntries == {VALIDATED_DATA_SOURCES[k] : k \in RegistryKeys}

(* C18: whatever labels the three providers give, validateDataSource of    *)
(* the stored string returns registry entries only, and none described as  *)
(* 'Unknown or unverified data source'.                                    *)
C18_AttributionRoundTrip ==
    attribution.pc = "done" =>
        \A i \in 1 .. Len(attribution.validated) :
            /\ attribution.validated[i] \in RegistryEntries
            /\ attribution.validated[i].description
                   # "Unknown or unverified data source"

\* the round trip of the labels that hold no comma: registry keys and
\* Gemini labels naming one source
C18_RoundTripWithoutComma ==
    (/\ attribution.pc = "done"
     /\ \A n \in 1 .. 3 : FirstIndexOf(attribution.labels[n], {","}) = 0) =>
        \A i \in 1 .. Len(attribution.validated) :
            attribution.validated[i] \in RegistryEntries

\* a soil label naming two sources is cut at its comma: the second half
\* comes back as an unknown source
C18_TwoSourcesCutInTwo ==
    /\ attribution.pc = "done"
    /\ attribution.labels =
           <<<<"openweathermap">>,
             <<"gemini_ai", " ", "(", "Soil Health Card Published", ",", " ",
               "NDMA", ")">>,
             <<"estimate">>>>
    /\ attribution.validated =
           <<VALIDATED_DATA_SOURCES["openweathermap"],
             VALIDATED_DATA_SOURCES["gemini_ai"],
             UnknownSource(<<"NDMA", ")">>),
             VALIDATED_DATA_SOURCES["estimate"]>>

---------------------------------------------------------------------------
(* The district route: GET /api/districts/[slug].  Times are milliseconds. *)
(* A record of environmental_data is its id and its timestamp; the values  *)
(* the providers gave are left out.  The reads and writes of the database  *)
(* succeed.                                                                *)

ONE_DAY_MS == 24 * 60 * 60 * 1000

\* time passes in steps of twelve hours
TickMs == 12 * 60 * 60 * 1000

MaxTicks == 3

\* the slugs of a request: none, a district of the collection, no district
RouteSlugs == {"", "delhi", "atlantis"}

DistrictSlugs == {"delhi"}

\* sortedDocs[0]: a record of the snapshot that no other is newer than
NewestOf(snapshot) ==
    {d \in snapshot : \A e \in snapshot : e.timestamp <= d.timestamp}

isStale_AtLeastOneDay(envData, now) ==
    envData = NoRecord \/ now - envData.timestamp >= ONE_DAY_MS

\* !envData || (now - envData.timestamp.getTime() > ONE_DAY_MS)
isStale(envData, now) ==
    envData = NoRecord \/ now - envData.timestamp > ONE_DAY_MS

Tick ==
    /\ clock < MaxTicks * TickMs
    /\ clock' = clock + TickMs
    /\ UNCHANGED <<envRecords, gets, notRouteVars>>

\* the request is answered with an error and is over
Failed(get, status, message) ==
    [get EXCEPT !.pc = "done", !.status = status, !.error = message,
                !.now = 0, !.snapshot = {}, !.envData = NoRecord]

\* a request arrives; without a slug it is answered 400
Get(g) ==
    /\ gets[g].pc = "idle"
    /\ \E slug \in RouteSlugs :
        gets' = [gets EXCEPT ![g] =
                    IF slug = ""
                    THEN Failed(NoGet, 400, "District slug is required")
                    ELSE [NoGet EXCEPT !.pc = "district", !.slug = slug]]
    /\ UNCHANGED <<clock, envRecords, notRouteVars>>

FetchDistrict_NoneMissing(g) ==
    /\ gets[g].pc = "district"
    /\ gets' = [gets EXCEPT ![g] = [@ EXCEPT !.pc = "environment"]]
    /\ UNCHANGED <<clock, envRecords, notRouteVars>>

\* the district is looked up by slug; 404 if there is none
FetchDistrict(g) ==
    /\ gets[g].pc = "district"
    /\ gets' = [gets EXCEPT ![g] =
                    IF gets[g].slug \in DistrictSlugs
                    THEN [@ EXCEPT !.pc = "environment"]
                    ELSE Failed(@, 404, "District not found")]
    /\ UNCHANGED <<clock, envRecords, notRouteVars>>

\* the records of the district are read, the time is taken, and the newest
\* record becomes envData
FetchEnvironmentalData(g) ==
    /\ gets[g].pc = "environment"
    /\ \E envData \in IF envRecords = {} THEN {NoRecord}
                      ELSE NewestOf(envRecords) :
        gets' = [gets EXCEPT ![g] =
                    [@ EXCEPT !.snapshot = envRecords,
                              !.now = clock,
                              !.envData = envData,
                              !.pc = IF isStale(envData, clock)
                                     THEN "providers" ELSE "calculate"]]
    /\ UNCHANGED <<clock, envRecords, notRouteVars>>

\* await Promise.all of the three providers
CallProviders(g) ==
    /\ gets[g].pc = "providers"
    /\ gets' = [gets EXCEPT ![g] = [@ EXCEPT !.called = TRUE, !.pc = "write"]]
    /\ UNCHANGED <<clock, envRecords, notRouteVars>>

WriteEnvironmentalData_EnvDataKept(g) ==
    /\ gets[g].pc = "write"
    /\ LET new == [id |-> Cardinality(envRecords) + 1, timestamp |-> clock]
       IN  /\ envRecords' = envRecords \cup {new}
           /\ gets' = [gets EXCEPT ![g] =
                        [@ EXCEPT !.wrote = TRUE, !.pc = "calculate"]]
    /\ UNCHANGED <<clock, notRouteVars>>

\* a new record is written with the time of the write, and becomes envData
WriteEnvironmentalData(g) ==
    /\ gets[g].pc = "write"
    /\ LET new == [id |-> Cardinality(envRecords) + 1, timestamp |-> clock]
       IN  /\ envRecords' = envRecords \cup {new}
           /\ gets' = [gets EXCEPT ![g] =
                        [@ EXCEPT !.envData = new, !.wrote = TRUE,
                                  !.pc = "calculate"]]
    /\ UNCHANGED <<clock, notRouteVars>>

\* tree_contributions and donations as a request may find them: records of
\* the district and of another, of every status; a treeCount of 0 stands
\* for a donation without the field as well
TreeCollections ==
    {[contributions |-> {}, donations |-> {}],
     [contributions |->
        {[id |-> 1, districtId |-> "delhi", status |-> "VERIFIED"],
         [id |-> 2, districtId |-> "delhi", status |-> "PENDING"],
         [id |-> 3, districtId |-> "delhi", status |-> "REJECTED"],
         [id |-> 4, districtId |-> "pune", status |-> "VERIFIED"]},
      donations |->
        {[id |-> 1, districtId |-> "delhi", treeCount |-> 5],
         [id |-> 2, districtId |-> "delhi", treeCount |-> 0],
         [id |-> 3, districtId |-> "pune", treeCount |-> 100]}],
     [contributions |->
        {[id |-> 1, districtId |-> "delhi", status |-> "VERIFIED"],
         [id |-> 5, districtId |-> "delhi", status |-> "VERIFIED"]},
      donations |->
        {[id |-> 1, districtId |-> "delhi", treeCount |-> 5],
         [id |-> 4, districtId |-> "delhi", treeCount |-> 7]}]}

\* .where('districtId', '==', district.id).where('status', '==', 'VERIFIED')
contributionsSnap_AnyStatus(collection, districtId) ==
    {c \in collection : c.districtId = districtId}

contributionsSnap(collection, districtId) ==
    {c \in collection : c.districtId = districtId /\ c.status = "VERIFIED"}

\* .where('districtId', '==', district.id)
donationsSnap(collection, districtId) ==
    {d \in collection : d.districtId = districtId}

\* docs.reduce((sum, doc) => sum + (doc.data().treeCount || 0), 0)
RECURSIVE SumTreeCount(_)
SumTreeCount(docs) ==
    IF docs = {} THEN 0
    ELSE LET doc == CHOOSE d \in docs : TRUE
         IN  doc.treeCount + SumTreeCount(docs \ {doc})

DistrictStats(contributions, donations, districtId) ==
    LET totalTreesPlanted ==
            Cardinality(contributionsSnap(contributions, districtId))
        totalTreesDonated ==
            SumTreeCount(donationsSnap(donations, districtId))
        totalTrees == totalTreesPlanted + totalTreesDonated
    IN  [totalTreesPlanted |-> totalTreesPlanted,
         totalTreesDonated |-> totalTreesDonated,
         totalTrees |-> totalTrees,
         oxygenOffset |-> totalTrees * BASE_TREE_O2_KG_PER_YEAR]

\* without envData the answer is 503; else the calculation service is
\* called, and answers or not; the trees of the district are read and
\* the district detail is returned
CalculateAndRespond(g) ==
    /\ gets[g].pc = "calculate"
    /\ IF gets[g].envData = NoRecord
       THEN gets' = [gets EXCEPT ![g] =
                        Failed(@, 503, "Environmental data unavailable")]
       ELSE \E ok \in BOOLEAN, trees \in TreeCollections :
            gets' = [gets EXCEPT ![g] =
                IF ok
                THEN [@ EXCEPT !.pc = "done", !.status = 200,
                               !.posted = TRUE, !.now = 0, !.snapshot = {},
                               !.envData = NoRecord,
                               !.contributions = trees.contributions,
                               !.donations = trees.donations,
                               !.stats = DistrictStats(trees.contributions,
                                                       trees.donations,
                                                       gets[g].slug)]
                ELSE [Failed(@, 503, "Oxygen calculation service unavailable")
                         EXCEPT !.posted = TRUE]]
    /\ UNCHANGED <<clock, envRecords, notRouteVars>>

\* an awaited call rejects (the database, a provider, the fetch of the
\* calculation service): the catch answers 500
Throw(g) ==
    /\ gets[g].pc \in {"district", "environment", "providers", "write",
                       "calculate"}
    /\ \E posted \in {p \in BOOLEAN : p => gets[g].pc = "calculate"
                                           /\ gets[g].envData # NoRecord} :
        gets' = [gets EXCEPT ![g] =
                    [Failed(@, 500, "Failed to fetch district details")
                        EXCEPT !.posted = posted]]
    /\ UNCHANGED <<clock, envRecords, notRouteVars>>

RouteNext ==
    \/ Tick
    \/ \E g \in Gets :
        \/ Get(g)
        \/ FetchDistrict(g)
        \/ FetchEnvironmentalData(g)
        \/ CallProviders(g)
        \/ WriteEnvironmentalData(g)
        \/ CalculateAndRespond(g)
        \/ Throw(g)

SpecRoute == Init /\ [][RouteNext]_vars

\* the request has read the records and found none, or the newest of them
\* more than 24 hours older than the time it took
SawStale(g) ==
    \/ gets[g].snapshot = {}
    \/ \A d \in gets[g].snapshot : gets[g].now - d.timestamp > ONE_DAY_MS

(* C15: a request calls the providers and writes a new record exactly when *)
(* the records it read are none, or the newest of them is more than 24     *)
(* hours old; otherwise it goes on with the newest record it read and      *)
(* writes nothing.                                                         *)
C15_RefreshIffStale ==
    \A g \in Gets :
        /\ gets[g].pc \in {"providers", "write"} => SawStale(g)
        /\ gets[g].pc = "calculate" =>
            /\ gets[g].called <=> SawStale(g)
            /\ gets[g].wrote <=> SawStale(g)
            /\ SawStale(g) =>
                    gets[g].envData \in envRecords \ gets[g].snapshot
            /\ ~SawStale(g) => gets[g].envData \in NewestOf(gets[g].snapshot)

\* a request finds a record exactly 24 hours old and goes on with it
C15_Witness ==
    \E g \in Gets :
        /\ gets[g].pc = "calculate"
        /\ gets[g].envData \in gets[g].snapshot
        /\ gets[g].now - gets[g].envData.timestamp = ONE_DAY_MS
        /\ ~gets[g].wrote /\ ~gets[g].called

\* a request finds a record 36 hours old and writes a second one
C15_WitnessRefresh ==
    \E g \in Gets :
        /\ gets[g].pc = "calculate"
        /\ gets[g].snapshot = {[id |-> 1, timestamp |-> 0]}
        /\ gets[g].now = 3 * TickMs
        /\ gets[g].wrote /\ gets[g].called
        /\ gets[g].envData = [id |-> 2, timestamp |-> 3 * TickMs]

(* C20: whatever the interleaving of the requests, no two records of the   *)
(* district are written within 24 hours of each other.                     *)
C20_OneRefreshPerWindow ==
    \A a, b \in envRecords :
        a.id # b.id =>
            \/ a.timestamp - b.timestamp > ONE_DAY_MS
            \/ b.timestamp - a.timestamp > ONE_DAY_MS

\* two requests both read that the district has no record, and both write
C20_BothRefresh ==
    /\ gets[1].pc = "calculate" /\ gets[2].pc = "calculate"
    /\ gets[1].snapshot = {} /\ gets[2].snapshot = {}
    /\ gets[1].wrote /\ gets[2].wrote
    /\ \E a, b \in envRecords : a.id # b.id /\ a.timestamp = b.timestamp

\* the request named no district of the collection
LookupFailed(g) == gets[g].pc # "idle" /\ gets[g].slug \notin DistrictSlugs

(* C21: a failed lookup changes nothing.  A request without a slug is      *)
(* answered 400 and one for an unknown slug 404 (unless the lookup itself  *)
(* throws); such a request never gets past the lookup, calls no provider,  *)
(* writes no record and does not call the calculation service, and while   *)
(* no other request has been made there is no record.                      *)
C21_FailedLookupChangesNothing ==
    /\ \A g \in Gets :
        LookupFailed(g) =>
            /\ gets[g].pc \in {"district", "done"}
            /\ ~gets[g].called /\ ~gets[g].wrote /\ ~gets[g].posted
            /\ gets[g].pc = "done" =>
                IF gets[g].slug = "" THEN gets[g].status = 400
                ELSE gets[g].status \in {404, 500}
    /\ (\A g \in Gets : gets[g].pc = "idle" \/ LookupFailed(g)) =>
            envRecords = {}

\* one request was answered 400, the other 404, and there is no record
C21_Witness ==
    /\ gets[1].pc = "done" /\ gets[1].status = 400
    /\ gets[1].error = "District slug is required"
    /\ gets[2].pc = "done" /\ gets[2].status = 404
    /\ gets[2].slug = "atlantis" /\ gets[2].error = "District not found"
    /\ envRecords = {}

(* C22: no request is answered 503 'Environmental data unavailable'.       *)
(* After the staleness step envData is set, and every request that found   *)
(* its district and was not ended by an exception has called the           *)
(* calculation service.                                                    *)
C22_EnvironmentalDataNeverUnavailable ==
    \A g \in Gets :
        /\ gets[g].error # "Environmental data unavailable"
        /\ gets[g].pc = "calculate" => gets[g].envData # NoRecord
        /\ (/\ gets[g].pc = "done"
            /\ gets[g].slug \in DistrictSlugs
            /\ gets[g].status # 500) => gets[g].posted

\* a request found no record, wrote one and went on to the calculation
C22_Witness ==
    \E g \in Gets :
        /\ gets[g].pc = "done" /\ gets[g].status = 200
        /\ gets[g].wrote /\ gets[g].posted
        /\ Cardinality(envRecords) = 1

Issues == {attribution.result.issues[i] :
              i \in 1 .. Len(attribution.result.issues)}

\* C28: valid is true exactly when no parsed source has reliability 'low';
\* the issue 'All data sources are estimates' never comes without the
\* low-reliability issue; an empty or missing string gives valid = false
\* and the single source 'Statistical Estimate'
C28_ValidIffNoLowReliability ==
    attribution.pc = "checked" =>
        LET checked == attribution.result
            input == attribution.dataSourceString
        IN  /\ checked.valid
                  <=> \A i \in 1 .. Len(checked.sources) :
                         checked.sources[i].reliability # "low"
            /\ AllEstimatesIssue \in Issues
                  => \E n \in 1 .. Len(checked.sources) :
                        LowReliabilityIssue(n) \in Issues
            /\ ~input.set \/ input.v = << >>
                  => /\ ~checked.valid
                     /\ Len(checked.sources) = 1
                     /\ checked.sources[1].name = <<"Statistical Estimate">>

\* C28: a stored string whose sources are all estimates or fallbacks has
\* been checked and both issues are reported
C28_Witness ==
    /\ attribution.pc = "checked"
    /\ attribution.dataSourceString.set
    /\ Len(attribution.result.sources) >= 3
    /\ Len(attribution.result.issues) = 2
    /\ ~attribution.result.valid

\* C28: a stored string without a source of low reliability is valid
C28_WitnessValid ==
    /\ attribution.pc = "checked"
    /\ attribution.result.valid
    /\ Len(attribution.result.sources) >= 3

DebounceMs == 300

\* the delay of onBlur's setTimeout
BlurMs == 200

\* the step of time of the model: both delays are multiples of it
SearchTickMs == BlurMs \div 2

DebounceTicks == DebounceMs \div SearchTickMs

BlurTicks == BlurMs \div SearchTickMs

\* the number of calls of setQuery in a run
MaxEdits == 3

\* the timers of onBlur pending at once in a run
MaxBlurTimers == 1

\* what the user types: text, with and without white space around it
Queries == {<< >>, <<" ">>, <<"del">>, <<"del", " ">>, <<"delhi">>}

\* district.name of the first result
DistrictName == <<"delhi">>

\* what the API answers: an empty list or a list of one district
ResultLengths == {0, 1}

\* err.message: empty or a text
ErrorMessages == {"", "Network error"}

\* useMemo(() => query.trim(), [query])
debouncedQuery == Trim(query)

\* the dependencies of the dropdown effect
DropdownDeps == <<districtNotFound, loadingDistrict, loading, results.length>>

\* the dropdown effect, run after a render that changed its dependencies,
\* on the value show that the handler left in showDropdown
DropdownEffect(show) ==
    IF DropdownDeps' = DropdownDeps THEN show
    ELSE IF districtNotFound' \/ loadingDistrict' THEN TRUE
    ELSE IF ~loading' /\ results'.length = 0 THEN FALSE
    ELSE show

\* the clean-up of the search effect that left the timer running
Cleanup_TimerKept(c) == [c EXCEPT !.isCancelled = TRUE]

\* the clean-up of the search effect: isCancelled = true; clearTimeout(timeout)
Cleanup(c) == [c EXCEPT !.isCancelled = TRUE, !.timer = FALSE]

\* the closures that can still act: a timer pending or a request in flight
Live(cs) == {c \in cs : c.timer \/ c.inflight}

\* the search effect run for the trimmed query q by the edit numbered id
SearchEffect(q, id) ==
    IF q = << >> THEN {}
    ELSE {[id |-> id, query |-> q, isCancelled |-> FALSE, timer |-> TRUE,
           age |-> 0, inflight |-> FALSE]}

\* setQuery(q) and the render that follows: when the trimmed query changed
\* the clean-up of the previous search effect runs, then the effect itself
SetQuery(q, show) ==
    /\ mounted
    /\ edits < MaxEdits
    /\ q # query
    /\ query' = q
    /\ edits' = edits + 1
    /\ IF Trim(q) = debouncedQuery
       THEN UNCHANGED <<results, closures, quiet, scheduled>>
       ELSE /\ results' = IF Trim(q) = << >> THEN NoResults ELSE results
            /\ closures' = Live({Cleanup(c) : c \in closures})
                           \cup SearchEffect(Trim(q), edits + 1)
            /\ quiet' = 0
            /\ scheduled' = IF Trim(q) = << >> THEN 0 ELSE edits + 1
    /\ UNCHANGED <<loading, error, mounted, districtNotFound,
                   loadingDistrict, blurTimers>>
    /\ showDropdown' = DropdownEffect(show)
    /\ UNCHANGED notSearchVars

\* onChange of the input
Change ==
    \E q \in Queries :
        SetQuery(q, IF districtNotFound THEN FALSE ELSE showDropdown)

\* handleSelect(results[0]), from a click or from Enter
Select ==
    /\ results.length > 0
    /\ SetQuery(DistrictName, showDropdown)

\* the timer of the search effect fires: fetchResults up to its await
TimerFires ==
    \E c \in closures :
        /\ c.timer
        /\ c.age >= DebounceTicks
        /\ closures' = (closures \ {c})
                       \cup {[c EXCEPT !.timer = FALSE, !.inflight = TRUE]}
        /\ loading' = IF mounted THEN TRUE ELSE loading
        /\ error' = IF mounted THEN NoError ELSE error
        /\ UNCHANGED <<query, results, mounted, districtNotFound,
                       loadingDistrict, blurTimers, edits, quiet, scheduled>>
        /\ showDropdown' = DropdownEffect(showDropdown)
        /\ UNCHANGED notSearchVars

\* whether the continuation of fetchResults may set state
Applies_Always(c) == mounted

Applies(c) == mounted /\ ~c.isCancelled

\* the request resolves: the rest of the try block, then finally
Resolve ==
    \E c \in closures, length \in ResultLengths :
        /\ c.inflight
        /\ closures' = closures \ {c}
        /\ IF Applies(c)
           THEN /\ results' = [for |-> c.query, length |-> length]
                /\ loading' = FALSE
           ELSE UNCHANGED <<results, loading>>
        /\ UNCHANGED <<query, error, mounted, districtNotFound,
                       loadingDistrict, blurTimers, edits, quiet, scheduled>>
        /\ showDropdown' = IF Applies(c) THEN DropdownEffect(TRUE)
                           ELSE showDropdown
        /\ UNCHANGED notSearchVars

\* the request rejects: the catch block, then finally
Reject ==
    \E c \in closures, message \in ErrorMessages :
        /\ c.inflight
        /\ closures' = closures \ {c}
        /\ IF Applies(c)
           THEN /\ error' = [for |-> c.query,
                             message |-> IF message = ""
                                         THEN "Failed to search districts"
                                         ELSE message]
                /\ loading' = FALSE
           ELSE UNCHANGED <<error, loading>>
        /\ UNCHANGED <<query, results, mounted, districtNotFound,
                       loadingDistrict, blurTimers, edits, quiet, scheduled>>
        /\ showDropdown' = DropdownEffect(showDropdown)
        /\ UNCHANGED notSearchVars

\* time passes by one step; a timer that is due stays due
Elapse ==
    /\ closures' = {IF c.timer /\ c.age < DebounceTicks
                    THEN [c EXCEPT !.age = @ + 1] ELSE c : c \in closures}
    /\ blurTimers' = {IF b.age < BlurTicks
                      THEN [b EXCEPT !.age = @ + 1] ELSE b : b \in blurTimers}
    /\ quiet' = IF quiet < DebounceTicks THEN quiet + 1 ELSE quiet
    /\ UNCHANGED <<query, results, loading, error, showDropdown, mounted,
                   districtNotFound, loadingDistrict, edits, scheduled>>
    /\ UNCHANGED notSearchVars

\* the component unmounts: the clean-up of the last search effect runs
Unmount ==
    /\ mounted
    /\ mounted' = FALSE
    /\ closures' = Live({Cleanup(c) : c \in closures})
    /\ UNCHANGED <<query, results, loading, error, showDropdown,
                   districtNotFound, loadingDistrict, blurTimers, edits,
                   quiet, scheduled>>
    /\ UNCHANGED notSearchVars

\* the parent renders the component with other props
ParentUpdate ==
    \E notFound \in BOOLEAN, isLoading \in BOOLEAN :
        /\ mounted
        /\ <<notFound, isLoading>> # <<districtNotFound, loadingDistrict>>
        /\ districtNotFound' = notFound
        /\ loadingDistrict' = isLoading
        /\ UNCHANGED <<query, results, loading, error, mounted, closures,
                       blurTimers, edits, quiet, scheduled>>
        /\ showDropdown' = DropdownEffect(showDropdown)
        /\ UNCHANGED notSearchVars

\* onFocus of the input
Focus ==
    /\ mounted
    /\ results.length > 0 \/ districtNotFound \/ Len(debouncedQuery) > 0
    /\ showDropdown' = TRUE
    /\ UNCHANGED <<query, results, loading, error, mounted, districtNotFound,
                   loadingDistrict, closures, blurTimers, edits, quiet,
                   scheduled>>
    /\ UNCHANGED notSearchVars

\* onBlur of the input, the focus leaving the dropdown too: the callback
\* keeps the districtNotFound of the render that made it
Blur ==
    /\ mounted
    /\ Cardinality(blurTimers) < MaxBlurTimers
    /\ blurTimers' = blurTimers
                     \cup {[age |-> 0, districtNotFound |-> districtNotFound]}
    /\ UNCHANGED <<query, results, loading, error, showDropdown, mounted,
                   districtNotFound, loadingDistrict, closures, edits, quiet,
                   scheduled>>
    /\ UNCHANGED notSearchVars

\* the timer of onBlur fires
BlurTimeout ==
    \E b \in blurTimers :
        /\ b.age >= BlurTicks
        /\ blurTimers' = blurTimers \ {b}
        /\ showDropdown' = IF mounted /\ ~b.districtNotFound
                           THEN FALSE ELSE showDropdown
        /\ UNCHANGED <<query, results, loading, error, mounted,
                       districtNotFound, loadingDistrict, closures, edits,
                       quiet, scheduled>>
        /\ UNCHANGED notSearchVars

SearchNext ==
    \/ Change
    \/ Select
    \/ TimerFires
    \/ Resolve
    \/ Reject
    \/ Elapse
    \/ Unmount
    \/ ParentUpdate
    \/ Focus
    \/ Blur
    \/ BlurTimeout

SpecSearch == Init /\ [][SearchNext]_vars



\* the request of closure c settles in this step
Settled(c) == c.inflight /\ \A d \in closures' : d.id # c.id

\* the request of closure c is issued in this step
Issued(c) == c.timer /\ \E d \in closures' : d.id = c.id /\ d.inflight

\* the response of closure c is late: the component has unmounted or the
\* trimmed query has changed since the search effect scheduled c
Stale(c) == ~mounted \/ c.id # scheduled

\* C24: a response or an error that settles after the trimmed query has
\* changed, or after the unmount, leaves results, error and showDropdown
\* as they are; results and error only ever take the response of the
\* closure that the latest run of the search effect scheduled
C24_StaleResponseIgnored ==
    [][/\ \A c \in closures :
            Settled(c) /\ Stale(c) => UNCHANGED <<results, error, showDropdown>>
       /\ (results' # results /\ results' # NoResults)
            => \E c \in closures :
                  /\ Settled(c) /\ c.id = scheduled
                  /\ results'.for = c.query /\ c.query = debouncedQuery
       /\ (error' # error /\ error' # NoError)
            => \E c \in closures :
                  /\ Settled(c) /\ c.id = scheduled
                  /\ error'.for = c.query /\ c.query = debouncedQuery
      ]_vars

\* C24: a request was issued, the query changed, the late response has
\* arrived and has left no trace, the next request being still scheduled
C24_Witness ==
    /\ mounted
    /\ loading
    /\ closures # {}
    /\ \A c \in closures : c.timer /\ c.id = scheduled
    /\ results = NoResults
    /\ error = NoError

\* C25: at most one timer is pending; an empty trimmed query has no
\* results and no timer; a request is issued only for the current trimmed
\* query, not empty and unchanged for 300 ms; a change of the trimmed
\* query leaves no earlier timer pending
C25_DebouncedRequest ==
    /\ [](/\ Cardinality({c \in closures : c.timer}) <= 1
          /\ debouncedQuery = << >>
                => results = NoResults /\ \A c \in closures : ~c.timer)
    /\ [][/\ \A c \in closures :
                Issued(c) => /\ c.query = debouncedQuery
                             /\ c.query # << >>
                             /\ quiet * SearchTickMs >= DebounceMs
          /\ debouncedQuery' # debouncedQuery
                => \A c \in closures, d \in closures' :
                      c.timer /\ d.id = c.id => ~d.timer
         ]_vars

\* C25: after an earlier edit whose timer was cancelled, the request of
\* the latest edit is in flight, and the query was then emptied
C25_Witness ==
    /\ mounted
    /\ debouncedQuery = << >>
    /\ \E c \in closures : c.inflight /\ c.isCancelled /\ c.id >= 2
    /\ \A c \in closures : ~c.timer
    /\ results = NoResults

\* a request is scheduled: the timer of a search effect is pending
RequestScheduled == \E c \in closures : c.timer

\* a request is in flight
RequestInFlight == \E c \in closures : c.inflight

\* C26: in the mounted search box, once no request is scheduled or in
\* flight, loading is false
C26_LoadingReset ==
    mounted /\ ~RequestScheduled /\ ~RequestInFlight => ~loading

\* C26: the query was cleared while a request was in flight, its response
\* has arrived and no request is left, the query being empty
C26_ClearedInFlight ==
    /\ mounted
    /\ debouncedQuery = << >>
    /\ closures = {}
    /\ loading



\* ---------------------------------------------------------------------
\* seedDistricts: the seed script
\* ---------------------------------------------------------------------

\* const batchSize = 500
batchSize == 500

\* the distinct values of district.state in a run
NumSeedStates == 3

\* sampleDistricts.length: nothing to seed, less than a batch, a batch
\* more or less one district, more than two batches
SeedSizes ==
    {0, 1, batchSize - 1, batchSize, batchSize + 1, 2 * batchSize + 1}

\* sampleDistricts[j - 1].state
StateOf(j) == ((j - 1) % NumSeedStates) + 1

\* [...new Set(values)]: the values without repetition, in order of first use
RECURSIVE Unique(_)
Unique(values) ==
    IF Len(values) <= 1 THEN values
    ELSE LET half == Len(values) \div 2
             left == Unique(SubSeq(values, 1, half))
             right == Unique(SubSeq(values, half + 1, Len(values)))
             New(v) == \A k \in 1 .. Len(left) : left[k] # v
         IN  left \o SelectSeq(right, New)

\* [...new Set(sampleDistricts.map(d => d.state))]
UniqueStates(n) == Unique([j \in 1 .. n |-> StateOf(j)])

\* sampleDistricts.slice(i, i + batchSize), as indices from 1
Chunk(n, i) ==
    [k \in 1 .. (IF n - i < batchSize THEN n - i ELSE batchSize) |-> i + k]

\* the document that leaderboardBatch.set writes for a state
LeaderboardEntry(state) ==
    [state |-> state, totalTreesPlanted |-> 0, totalTreesDonated |-> 0,
     totalTrees |-> 0, oxygenOffset |-> 0, rank |-> 0]

\* the script went on without waiting for the commit
Awaited_Not(s) == TRUE

\* await batch.commit(): the script goes on when the commit has resolved
Awaited(s) == s.pending = << >>

\* seedDistricts() is called with a list of districts
SeedDistricts ==
    /\ seed.pc = "idle"
    /\ \E n \in SeedSizes : seed' = [seed EXCEPT !.pc = "loop", !.n = n]
    /\ UNCHANGED notSeedVars

\* the test of the outer loop: the next chunk and its batch, or the end
NextChunk ==
    /\ seed.pc = "loop"
    /\ seed' = IF seed.i < seed.n
               THEN [seed EXCEPT !.pc = "set", !.batch = << >>]
               ELSE [seed EXCEPT !.pc = "states"]
    /\ UNCHANGED notSeedVars

\* batch.set(docRef, ...) for the next district of the chunk
BatchSet ==
    /\ seed.pc = "set"
    /\ LET chunk == Chunk(seed.n, seed.i)
           batch == Append(seed.batch, chunk[Len(seed.batch) + 1])
       IN  seed' = [seed EXCEPT !.batch = batch,
                                !.pc = IF Len(batch) = Len(chunk)
                                       THEN "commit" ELSE "set"]
    /\ UNCHANGED notSeedVars

\* batch.commit() is called
BatchCommit ==
    /\ seed.pc = "commit"
    /\ seed' = [seed EXCEPT !.pc = "await",
                            !.pending = Append(@, seed.batch),
                            !.batch = << >>]
    /\ UNCHANGED notSeedVars

\* a commit resolves: the writes of its batch are in the collection
CommitResolves ==
    /\ seed.pc \in {"await", "loop", "set", "commit"}
    /\ seed.pending # << >>
    /\ seed' = [seed EXCEPT !.pending = Tail(@),
                            !.districts = @ \o Head(seed.pending),
                            !.batches = Append(@, Len(Head(seed.pending)))]
    /\ UNCHANGED notSeedVars

\* the loop goes on after the await: i += batchSize
NextIteration ==
    /\ seed.pc = "await"
    /\ Awaited(seed)
    /\ seed' = [seed EXCEPT !.pc = "loop", !.i = @ + batchSize]
    /\ UNCHANGED notSeedVars

\* the leaderboard batch: one set per state
LeaderboardBatch ==
    /\ seed.pc = "states"
    /\ Awaited(seed)
    /\ LET states == UniqueStates(seed.n)
       IN  seed' = [seed EXCEPT
                      !.pc = "leaderboard",
                      !.leaderboardBatch =
                          [k \in 1 .. Len(states) |->
                              LeaderboardEntry(states[k])]]
    /\ UNCHANGED notSeedVars

\* await leaderboardBatch.commit() resolves; process.exit(0)
LeaderboardCommit ==
    /\ seed.pc = "leaderboard"
    /\ seed' = [seed EXCEPT !.pc = "done",
                            !.leaderboard = seed.leaderboardBatch,
                            !.leaderboardBatch = << >>,
                            !.exit = 0]
    /\ UNCHANGED notSeedVars

\* a commit rejects: none of its writes is made; the catch, process.exit(1)
SeedFails ==
    /\ \/ seed.pc = "await" /\ seed.pending # << >>
       \/ seed.pc = "leaderboard"
    /\ seed' = [seed EXCEPT !.pc = "failed", !.pending = << >>,
                            !.leaderboardBatch = << >>, !.exit = 1]
    /\ UNCHANGED notSeedVars

SeedNext ==
    \/ SeedDistricts
    \/ NextChunk
    \/ BatchSet
    \/ BatchCommit
    \/ CommitResolves
    \/ NextIteration
    \/ LeaderboardBatch
    \/ LeaderboardCommit
    \/ SeedFails

SpecSeed == Init /\ [][SeedNext]_vars

\* the districts written are the first ones of the list, once each, in order
WrittenInOrder == \A j \in 1 .. Len(seed.districts) : seed.districts[j] = j

\* C27: every batch holds at most 500 writes; the districts are written
\* once each in the order of the list; a batch is built only when the
\* batches before it are committed; a run that ends well has written every
\* district and then one leaderboard entry per distinct state, its five
\* counters at zero
C27_SeedInBatches ==
    /\ Len(seed.batch) <= batchSize
    /\ \A b \in 1 .. Len(seed.batches) : seed.batches[b] \in 1 .. batchSize
    /\ WrittenInOrder
    /\ seed.pc \in {"set", "commit"}
          => seed.pending = << >> /\ Len(seed.districts) = seed.i
    /\ seed.leaderboard # << >> \/ seed.leaderboardBatch # << >>
          => Len(seed.districts) = seed.n
    /\ seed.pc = "done"
          => /\ Len(seed.districts) = seed.n
             /\ Len(seed.leaderboard)
                   = Cardinality({StateOf(j) : j \in 1 .. seed.n})
             /\ \A k \in 1 .. Len(seed.leaderboard) :
                   LET entry == seed.leaderboard[k]
                   IN  /\ \E j \in 1 .. seed.n : StateOf(j) = entry.state
                       /\ entry.totalTreesPlanted = 0
                       /\ entry.totalTreesDonated = 0
                       /\ entry.totalTrees = 0
                       /\ entry.oxygenOffset = 0
                       /\ entry.rank = 0
             /\ \A j \in 1 .. seed.n :
                   \E k \in 1 .. Len(seed.leaderboard) :
                       seed.leaderboard[k].state = StateOf(j)

\* C27: a run of more than two batches has ended well
C27_Witness ==
    /\ seed.pc = "done"
    /\ seed.n > 2 * batchSize
    /\ seed.batches = <<batchSize, batchSize, seed.n - 2 * batchSize>>
    /\ Len(seed.leaderboard) = NumSeedStates



\* ---------------------------------------------------------------------
\* useNetworkStatus: the hook that follows the browser's connectivity
\* ---------------------------------------------------------------------

\* the events waiting to be dispatched at once
MaxQueued == 2

\* what a connection object reports: downlink in tenths of Mbit/s, rtt in ms
Connections ==
    {[effectiveType |-> "4g", downlink |-> 100, rtt |-> 50,
      saveData |-> "false"],
     [effectiveType |-> "2g", downlink |-> 3, rtt |-> 1800,
      saveData |-> "true"]}

\* navigator.connection || navigator.mozConnection || navigator.webkitConnection
ConnectionOf(navigator) ==
    IF navigator.connection # NoConnection THEN navigator.connection
    ELSE navigator.mozConnection

\* the status that updateNetworkInfo sets
updateNetworkInfo(navigator) ==
    [isOnline |-> navigator.onLine] @@ ConnectionOf(navigator)

\* the status that a listener leaves, the two updates of handleOnline
\* being applied in order
Handler(type, status, navigator) ==
    CASE type = "online" -> updateNetworkInfo(navigator)
      [] type = "offline" -> [status EXCEPT !.isOnline = FALSE]
      [] type = "change" -> updateNetworkInfo(navigator)

\* the listeners that the effect registers
Registered(navigator) ==
    {"online", "offline"}
    \cup (IF navigator.connection # NoConnection THEN {"change"} ELSE {})

\* the clean-up left the listener of the connection in place
Removed_WindowOnly(navigator) == {"online", "offline"}

\* the listeners that the clean-up of the effect removes
Removed(navigator) ==
    {"online", "offline"}
    \cup (IF navigator.connection # NoConnection THEN {"change"} ELSE {})

\* the component mounts in some browser: first render, then the effect
MountNetworkStatus ==
    /\ network.pc = "idle"
    /\ \E onLine \in BOOLEAN,
          connection \in Connections \cup {NoConnection},
          mozConnection \in Connections \cup {NoConnection} :
          LET navigator == [onLine |-> onLine, connection |-> connection,
                            mozConnection |-> mozConnection]
          IN  network' = [network EXCEPT
                            !.pc = "mounted",
                            !.navigator = navigator,
                            !.status = updateNetworkInfo(navigator),
                            !.listeners = Registered(navigator)]
    /\ UNCHANGED notNetworkVars

\* the browser goes online or offline: navigator.onLine changes and a
\* task is queued to fire the event
OnLineChanges ==
    /\ network.pc # "idle"
    /\ Len(network.events) < MaxQueued
    /\ network' = [network EXCEPT
                     !.navigator.onLine = ~@,
                     !.events = Append(@, IF network.navigator.onLine
                                          THEN "offline" ELSE "online")]
    /\ UNCHANGED notNetworkVars

\* the connection changes: its fields change and 'change' is queued
ConnectionChanges ==
    /\ network.pc # "idle"
    /\ network.navigator.connection # NoConnection
    /\ Len(network.events) < MaxQueued
    /\ \E connection \in Connections \ {network.navigator.connection} :
          network' = [network EXCEPT
                        !.navigator.connection = connection,
                        !.events = Append(@, "change")]
    /\ UNCHANGED notNetworkVars

\* the first queued event is fired: its listener runs if it is registered,
\* and sets the state of a mounted component
Dispatch ==
    /\ network.events # << >>
    /\ LET type == Head(network.events)
       IN  IF type \in network.listeners
           THEN network' = [network EXCEPT
                              !.events = Tail(@),
                              !.last = type,
                              !.status = IF network.pc = "mounted"
                                         THEN Handler(type, @,
                                                      network.navigator)
                                         ELSE @]
           ELSE network' = [network EXCEPT !.events = Tail(@)]
    /\ UNCHANGED notNetworkVars

\* the component unmounts: the clean-up of the effect
UnmountNetworkStatus ==
    /\ network.pc = "mounted"
    /\ network' = [network EXCEPT
                     !.pc = "unmounted",
                     !.listeners = @ \ Removed(network.navigator)]
    /\ UNCHANGED notNetworkVars

NetworkNext ==
    \/ MountNetworkStatus
    \/ OnLineChanges
    \/ ConnectionChanges
    \/ Dispatch
    \/ UnmountNetworkStatus

SpecNetwork == Init /\ [][NetworkNext]_vars

\* the listener of the event type runs in this step
Handles(type) ==
    /\ network.events # << >>
    /\ Head(network.events) = type
    /\ network'.events = Tail(network.events)
    /\ type \in network.listeners

\* the four fields of the connection in the status
ConnectionFields(status) ==
    <<status.effectiveType, status.downlink, status.rtt, status.saveData>>

\* what the hook does at 'offline' and after the unmount: 'offline' sets
\* isOnline to false and keeps the four other fields; the unmount leaves
\* no listener, and no later step changes the status
OfflineAndUnmount ==
    /\ network.pc = "mounted" /\ Handles("offline")
          => /\ network'.status.isOnline = FALSE
             /\ ConnectionFields(network'.status)
                   = ConnectionFields(network.status)
    /\ network'.pc = "unmounted"
          => network'.listeners = {} /\ network'.status = network.status

\* C30, as stated: besides, every 'online' event handled by the mounted
\* hook sets isOnline to true
C30_OnlineSetsTrue ==
    [][/\ OfflineAndUnmount
       /\ network.pc = "mounted" /\ Handles("online")
             => network'.status.isOnline = TRUE
      ]_vars

\* C30, amended: besides, every 'online' event handled by the mounted hook
\* sets isOnline to the value of navigator.onLine at that moment, which is
\* false when the browser went offline again before the event was fired
C30_OnlineReadsNavigator ==
    [][/\ OfflineAndUnmount
       /\ network.pc = "mounted" /\ Handles("online")
             => /\ network'.status.isOnline = network.navigator.onLine
                /\ network.navigator.onLine \/ "offline" \in
                      {network.events[k] : k \in 1 .. Len(network.events)}
      ]_vars

\* C30: the listener of 'online' has just run in the mounted hook and
\* isOnline is false, the 'offline' event being still queued
C30_OnlineHandledOffline ==
    /\ network.pc = "mounted"
    /\ network.last = "online"
    /\ ~network.status.isOnline
    /\ network.events = <<"offline">>


====
